---- MODULE Spec2Model ----
(***************************************************************************)
(* Random album discovery engine of the MetalWall application              *)
(* (services/random_album.py and the provider adapters it calls).          *)
(*                                                                         *)
(* Artist names and tags are strings; Python's str operations are modelled *)
(* on them character by character (SubSeq(s, i, i) is the i-th character). *)
(* Weights and scores are held in tenths (2.0 is 20, the threshold 1.5 is  *)
(* 15), so that the floating-point sums of the code are exact integers.    *)
(***************************************************************************)
EXTENDS Integers, Sequences, FiniteSets, TLC

VARIABLES
    pc,               \* position of the running call
    lastfm_client,    \* TRUE when get_lastfm_client() returned a client
    top_tags,         \* what artist.get_top_tags() did for the classified artist
    tag_names,        \* is_metal_artist: the lower-cased tag names
    metal_score,      \* is_metal_artist: accumulated weight, in tenths
    non_metal_score,  \* is_metal_artist: accumulated disqualifying hits
    is_metal,         \* is_metal_artist: the value returned
    spotify_client,   \* TRUE when get_spotify_client() returned a client
    current_user,     \* st.session_state.current_user, None when logged out
    wall,             \* the albums table
    base_album_obj,   \* the seed album passed by the caller, or None
    max_attempts,     \* the max_attempts argument
    random_album,     \* the seed album of the run
    base_artist_name_clean,
    related_artists,
    filtered_artists, \* the candidates not drawn yet
    candidate_count,  \* the number of candidates the loop started with
    attempts,
    random_artist,    \* the candidate drawn in this attempt
    random_album_data,
    accepted_by,      \* the step of the validation that accepted the album
    bandcamp_response,\* what the Bandcamp request did, None before it is made
    result,           \* the pair returned: data and error
    discoveries,      \* the album_discoveries table
    calls,            \* the stores and providers called so far
    s_artist1,        \* are_artists_similar: the artist1 argument
    s_artist2,        \* are_artists_similar: the artist2 argument
    s_threshold,      \* are_artists_similar: the threshold argument
    s_norm1,          \* are_artists_similar: norm1
    s_norm2,          \* are_artists_similar: norm2
    s_similar,        \* are_artists_similar: the value returned
    remember_me,      \* st.session_state.remember_me
    query_params,     \* st.query_params['session'], None when the URL has none
    now,              \* datetime.now(), in half days
    verified,         \* the user names verify_credentials has accepted so far
    last_load,        \* the last call of load_session_from_storage, None before it
    sessions,         \* per logged-in user, the script run in progress
    last_like         \* per user, the last like-button write, None before it

clsVars == <<lastfm_client, top_tags, tag_names, metal_score, non_metal_score, is_metal>>

discoverVars == <<spotify_client, current_user, wall, base_album_obj, max_attempts, random_album,
                  base_artist_name_clean, related_artists, filtered_artists, candidate_count,
                  attempts, random_artist, random_album_data, accepted_by, bandcamp_response,
                  result, discoveries, calls>>

nameVars == <<s_artist1, s_artist2, s_threshold, s_norm1, s_norm2, s_similar>>

sessVars == <<remember_me, query_params, now, verified, last_load>>

wallVars == <<sessions, last_like>>

appVars == <<sessVars, wallVars>>

vars == <<pc, clsVars, discoverVars, nameVars, appVars>>

----------------------------------------------------------------------------
(* Python str primitives *)

Min(a, b) == IF a <= b THEN a ELSE b

Max(a, b) == IF a >= b THEN a ELSE b

\* the element of a set of one element: TheOne({e : x \in {v}}) is e with the
\* local variable x assigned v, v being computed once
TheOne(S) == CHOOSE x \in S : TRUE

CharAt(s, i) == SubSeq(s, i, i)

\* Python: sub in s
Contains(sub, s) ==
    TheOne({\E i \in 1..(Len(b) - Len(a) + 1) : SubSeq(b, i, i + Len(a) - 1) = a :
               a \in {sub}, b \in {s}})

UpperLetters == {"A", "B", "C", "D", "E", "F", "G", "H", "I", "J", "K", "L", "M",
                 "N", "O", "P", "Q", "R", "S", "T", "U", "V", "W", "X", "Y", "Z"}

LowerLetters == {"a", "b", "c", "d", "e", "f", "g", "h", "i", "j", "k", "l", "m",
                 "n", "o", "p", "q", "r", "s", "t", "u", "v", "w", "x", "y", "z"}

DigitChars == {"0", "1", "2", "3", "4", "5", "6", "7", "8", "9"}

\* str.lower() on the letters A-Z
ToLower == [A |-> "a", B |-> "b", C |-> "c", D |-> "d", E |-> "e", F |-> "f", G |-> "g",
            H |-> "h", I |-> "i", J |-> "j", K |-> "k", L |-> "l", M |-> "m", N |-> "n",
            O |-> "o", P |-> "p", Q |-> "q", R |-> "r", S |-> "s", T |-> "t", U |-> "u",
            V |-> "v", W |-> "w", X |-> "x", Y |-> "y", Z |-> "z"]

LowerChar(c) == IF c \in UpperLetters THEN ToLower[c] ELSE c

\* s with every character c replaced by F(c)
MapChars(F(_), s) ==
    TheOne({LET G[i \in 0..Len(v)] == IF i = 0 THEN "" ELSE G[i - 1] \o F(CharAt(v, i))
            IN  G[Len(v)] :
               v \in {s}})

\* Python: s.lower()
Lower(s) == MapChars(LowerChar, s)

\* the sum of a tuple of numbers
SumSeq(q) ==
    TheOne({LET G[i \in 0..Len(v)] == IF i = 0 THEN 0 ELSE G[i - 1] + v[i]
            IN  G[Len(v)] :
               v \in {q}})

----------------------------------------------------------------------------
(* More Python str operations *)

\* str.isspace() of one character
IsSpace(c) == c \in {" ", "\t", "\n", "\r"}

\* Python: s.startswith(p)
StartsWith(s, p) ==
    TheOne({Len(q) <= Len(v) /\ SubSeq(v, 1, Len(q)) = q : v \in {s}, q \in {p}})

\* the number of whitespace characters s starts with
LeadingSpaces(s) ==
    CHOOSE k \in 0..Len(s) :
        /\ \A i \in 1..k : IsSpace(CharAt(s, i))
        /\ k = Len(s) \/ ~IsSpace(CharAt(s, k + 1))

\* the number of whitespace characters s ends with
TrailingSpaces(s) ==
    CHOOSE k \in 0..Len(s) :
        /\ \A i \in (Len(s) - k + 1)..Len(s) : IsSpace(CharAt(s, i))
        /\ k = Len(s) \/ ~IsSpace(CharAt(s, Len(s) - k))

LStrip(s) == TheOne({SubSeq(v, LeadingSpaces(v) + 1, Len(v)) : v \in {s}})

RStrip(s) == TheOne({SubSeq(v, 1, Len(v) - TrailingSpaces(v)) : v \in {s}})

\* Python: s.strip()
Strip(s) == RStrip(LStrip(s))

\* Python: s.replace(old, new), old not empty: G[i] is s[i..] replaced
Replace(s, old, new) ==
    TheOne({LET G[i \in 1..(Len(v) + 1)] ==
                    IF i > Len(v) THEN ""
                    ELSE IF i + Len(old) - 1 <= Len(v) /\ SubSeq(v, i, i + Len(old) - 1) = old
                    THEN new \o G[i + Len(old)]
                    ELSE CharAt(v, i) \o G[i + 1]
            IN  G[1] :
               v \in {s}})

\* Split: the words closed and the word read so far, after one more character c
SplitStep(read, c) ==
    IF IsSpace(c) THEN (IF read[2] = "" THEN read ELSE <<Append(read[1], read[2]), "">>)
    ELSE <<read[1], read[2] \o c>>

\* Python: s.split()
Split(s) ==
    TheOne({LET G[i \in 0..(Len(v) + 1)] ==
                    IF i = 0 THEN << <<>>, "" >>
                    ELSE TheOne({SplitStep(read, IF i > Len(v) THEN " " ELSE CharAt(v, i)) :
                                    read \in {G[i - 1]}})
            IN  G[Len(v) + 1][1] :
               v \in {s}})

\* Python: ' '.join(words)
Join(words) ==
    TheOne({LET G[i \in 0..Len(w)] ==
                    IF i = 0 THEN "" ELSE IF i = 1 THEN w[1] ELSE G[i - 1] \o " " \o w[i]
            IN  G[Len(w)] :
               w \in {words}})

SeqToSet(q) == {q[i] : i \in 1..Len(q)}

\* Python: x in list
InSeq(x, q) == \E i \in 1..Len(q) : q[i] = x

IsLowerAlnum(c) == c \in LowerLetters \/ c \in DigitChars

IsAlnum(c) == IsLowerAlnum(c) \/ c \in UpperLetters

\* the number of characters of s before the first sep, a character
LengthBefore(s, sep) ==
    CHOOSE k \in 0..Len(s) :
        /\ \A i \in 1..k : CharAt(s, i) # sep
        /\ k = Len(s) \/ CharAt(s, k + 1) = sep

\* Python: s.split(sep)[0]
BeforeFirst(s, sep) == TheOne({SubSeq(v, 1, LengthBefore(v, sep)) : v \in {s}})

----------------------------------------------------------------------------
(* clean_artist_name and normalize_artist_name *)

\* services/spotify_service.py clean_artist_name
clean_artist_name(artist_name) ==
    Strip(Replace(Replace(Replace(Replace(artist_name,
        " | Spotify", ""), "Album by ", ""), "EP by ", ""), "Single by ", ""))

\* one pass of: if name.startswith(prefix): name = name[len(prefix):]
RemovePrefix(name, prefix) ==
    TheOne({IF StartsWith(v, prefix) THEN SubSeq(v, Len(prefix) + 1, Len(v)) ELSE v : v \in {name}})

\* re.sub(r'[&\+]', ' and ', name)
AmpersandToAnd(c) == IF c \in {"&", "+"} THEN " and " ELSE c

\* re.sub(r'[^a-z0-9\s]', '', name)
DropPunctuation(c) == IF IsLowerAlnum(c) \/ IsSpace(c) THEN c ELSE ""

\* lines 108-118 of normalize_artist_name, on a name that is not empty
NormalizedCharacters(artist_name) ==
    MapChars(DropPunctuation,
             MapChars(AmpersandToAnd,
                      RemovePrefix(RemovePrefix(RemovePrefix(Lower(artist_name), "the "), "\""), "'")))

normalize_artist_name(artist_name) ==
    TheOne({IF name = "" THEN "" ELSE Strip(Join(Split(NormalizedCharacters(name)))) :
               name \in {artist_name}})

----------------------------------------------------------------------------
(* fuzzywuzzy.fuzz on difflib.SequenceMatcher (no junk, strings under 200    *)
(* characters).  Positions are 1-based; a range lo..hi is inclusive.         *)

\* the characters of s, as a tuple
Chars(s) == [i \in 1..Len(s) |-> CharAt(s, i)]

RECURSIVE CommonPrefixLen(_, _, _, _, _, _)
\* how far a[i..ahi] and b[j..bhi] agree from their first characters
\* (a and b are tuples of characters in the matcher's operators)
CommonPrefixLen(a, i, ahi, b, j, bhi) ==
    IF i > ahi \/ j > bhi \/ a[i] # b[j] THEN 0
    ELSE 1 + CommonPrefixLen(a, i + 1, ahi, b, j + 1, bhi)

\* the better of two blocks <<i, j, k>>: first unless it is empty or shorter
LongerBlock(first, second) == IF first[3] > 0 /\ first[3] >= second[3] THEN first ELSE second

RECURSIVE LongestInRow(_, _, _, _, _, _)
\* find_longest_match for one position i of a: the longest block starting at
\* i and in b[j..bhi], the earliest in b among the longest
LongestInRow(a, i, ahi, b, j, bhi) ==
    IF j > bhi THEN <<i, j, 0>>
    ELSE IF a[i] # b[j] THEN LongestInRow(a, i, ahi, b, j + 1, bhi)
    ELSE TheOne({LongerBlock(<<i, j, k>>, later) :
                    k \in {CommonPrefixLen(a, i, ahi, b, j, bhi)},
                    later \in {LongestInRow(a, i, ahi, b, j + 1, bhi)}})

RECURSIVE LongestFrom(_, _, _, _, _, _)
\* the longest block starting in a[i..ahi], the earliest in a among the longest
LongestFrom(a, i, ahi, b, blo, bhi) ==
    IF i > ahi THEN <<i, blo, 0>>
    ELSE TheOne({LongerBlock(here, later) :
                    here \in {LongestInRow(a, i, ahi, b, blo, bhi)},
                    later \in {LongestFrom(a, i + 1, ahi, b, blo, bhi)}})

\* SequenceMatcher.find_longest_match: the longest block, earliest in a,
\* then earliest in b; <<i, j, k>> with k = 0 when nothing matches
FindLongestMatch(a, alo, ahi, b, blo, bhi) == LongestFrom(a, alo, ahi, b, blo, bhi)

RECURSIVE MatchingBlocksIn(_, _, _, _, _, _)
\* SequenceMatcher.get_matching_blocks on a[alo..ahi], b[blo..bhi], in order
MatchingBlocksIn(a, alo, ahi, b, blo, bhi) ==
    IF alo > ahi \/ blo > bhi THEN <<>>
    ELSE TheOne({IF m[3] = 0 THEN <<>>
                 ELSE MatchingBlocksIn(a, alo, m[1] - 1, b, blo, m[2] - 1)
                      \o <<m>>
                      \o MatchingBlocksIn(a, m[1] + m[3], ahi, b, m[2] + m[3], bhi) :
                    m \in {FindLongestMatch(a, alo, ahi, b, blo, bhi)}})

\* get_matching_blocks(), with the closing block of size 0
MatchingBlocks(a, b) ==
    TheOne({MatchingBlocksIn(ca, 1, Len(ca), cb, 1, Len(cb)) \o << <<Len(ca) + 1, Len(cb) + 1, 0>> >> :
               ca \in {Chars(a)}, cb \in {Chars(b)}})

\* the number of matched characters
MatchCount(a, b) ==
    TheOne({SumSeq([n \in 1..Len(blocks) |-> blocks[n][3]]) : blocks \in {MatchingBlocks(a, b)}})

\* int(round(100 * 2.0 * m / t)), round half to even
RoundedPercent(m, t) ==
    LET q == (200 * m) \div t
        r == (200 * m) % t
    IN  IF 2 * r > t THEN q + 1
        ELSE IF 2 * r < t THEN q
        ELSE IF q % 2 = 0 THEN q ELSE q + 1

\* fuzz.ratio on two different strings
RatioOf(a, b) ==
    IF Len(a) = 0 \/ Len(b) = 0 THEN 0
    ELSE RoundedPercent(MatchCount(a, b), Len(a) + Len(b))

\* fuzz.ratio
ratio(s1, s2) ==
    TheOne({IF a = b THEN 100 ELSE RatioOf(a, b) : a \in {s1}, b \in {s2}})

\* partial_ratio: the piece of longer that a block lines shorter up with
\* (block positions are 1-based: long_start = max(j - i, 0) is the same 0-based)
Piece(shorter, longer, block) ==
    TheOne({SubSeq(longer, long_start + 1, Min(long_start + Len(shorter), Len(longer))) :
               long_start \in {Max(block[2] - block[1], 0)}})

\* partial_ratio: m.ratio() of shorter against each piece, as
\* <<matched characters, total characters>>
PieceScores(shorter, longer) ==
    {TheOne({<<MatchCount(shorter, piece), Len(shorter) + Len(piece)>> :
                piece \in {Piece(shorter, longer, block)}}) :
        block \in SeqToSet(MatchingBlocks(shorter, longer))}

\* partial_ratio from the pieces' scores: 100 as soon as one is above .995,
\* if not the best of them
BestPieceScore(scores) ==
    IF \E x \in scores : 2000 * x[1] > 995 * x[2] THEN 100
    ELSE TheOne({RoundedPercent(top[1], top[2]) :
                    top \in {CHOOSE x \in scores : \A y \in scores : y[1] * x[2] <= x[1] * y[2]}})

\* fuzz.partial_ratio
partial_ratio(s1, s2) ==
    TheOne({IF a = b THEN 100
            ELSE IF Len(a) = 0 \/ Len(b) = 0 THEN 0
            ELSE TheOne({BestPieceScore(scores) :
                            scores \in {IF Len(a) <= Len(b) THEN PieceScores(a, b)
                                        ELSE PieceScores(b, a)}}) :
               a \in {s1}, b \in {s2}})

\* utils.full_process: characters that are not letters, digits or "_" become
\* spaces, then lower() and strip()
NonWordToSpace(c) == IF IsAlnum(c) \/ c = "_" THEN c ELSE " "

full_process(s) == Strip(Lower(MapChars(NonWordToSpace, s)))

\* the order of sorted() on processed tokens: code point order
SortAlphabet == "0123456789_abcdefghijklmnopqrstuvwxyz"

CharRank(c) == CHOOSE i \in 1..Len(SortAlphabet) : CharAt(SortAlphabet, i) = c

\* the number of characters a and b have in common from their first ones
CommonStart(a, b) ==
    CHOOSE k \in 0..Min(Len(a), Len(b)) :
        /\ \A i \in 1..k : CharAt(a, i) = CharAt(b, i)
        /\ k = Min(Len(a), Len(b)) \/ CharAt(a, k + 1) # CharAt(b, k + 1)

\* Python: a < b on strings
StrLess(a, b) ==
    TheOne({TheOne({IF k = Min(Len(x), Len(y)) THEN Len(x) < Len(y)
                    ELSE CharRank(CharAt(x, k + 1)) < CharRank(CharAt(y, k + 1)) :
                       k \in {CommonStart(x, y)}}) :
               x \in {a}, y \in {b}})

RECURSIVE SortedTokens(_)
\* Python: sorted(set_of_strings)
SortedTokens(S) ==
    TheOne({IF T = {} THEN <<>>
            ELSE TheOne({<<least>> \o SortedTokens(T \ {least}) :
                            least \in {CHOOSE x \in T : \A y \in T \ {x} : StrLess(x, y)}}) :
               T \in {S}})

\* token_set_ratio from the three strings it compares
BestOfThree(sect, combined_1to2, combined_2to1) ==
    Max(ratio(sect, combined_1to2),
        Max(ratio(sect, combined_2to1), ratio(combined_1to2, combined_2to1)))

\* token_set_ratio on the token sets
TokenSetRatio(tokens1, tokens2) ==
    TheOne({BestOfThree(Strip(sorted_sect),
                        Strip(sorted_sect \o " " \o Join(SortedTokens(tokens1 \ tokens2))),
                        Strip(sorted_sect \o " " \o Join(SortedTokens(tokens2 \ tokens1)))) :
               sorted_sect \in {Join(SortedTokens(tokens1 \cap tokens2))}})

\* fuzz.token_set_ratio (full_process=True, partial=False)
token_set_ratio(s1, s2) ==
    TheOne({IF Len(p1) = 0 \/ Len(p2) = 0 THEN 0
            ELSE TheOne({TokenSetRatio(tokens1, tokens2) :
                            tokens1 \in {SeqToSet(Split(p1))}, tokens2 \in {SeqToSet(Split(p2))}}) :
               p1 \in {full_process(s1)}, p2 \in {full_process(s2)}})

----------------------------------------------------------------------------
(* are_artists_similar and filter_related_artists *)

SimilarNormalizedUnguarded(artist1, artist2, norm1, norm2, words1, words2, threshold) ==
    \/ norm1 = norm2
    \/ ratio(norm1, norm2) >= threshold
    \/ token_set_ratio(Lower(artist1), Lower(artist2)) >= threshold

\* lines 134-165 of are_artists_similar, on the normalized names and their words
SimilarNormalized(artist1, artist2, norm1, norm2, words1, words2, threshold) ==
    LET single_word == IF Len(words1) = 1 THEN words1[1] ELSE words2[1]
        multi_words == IF Len(words1) = 1 THEN words2 ELSE words1
        contained == Contains(norm1, norm2) \/ Contains(norm2, norm1)
        fuzzy == \/ ratio(norm1, norm2) >= threshold
                 \/ token_set_ratio(Lower(artist1), Lower(artist2)) >= threshold
    IN  IF norm1 = norm2 THEN TRUE
        ELSE IF contained /\ Len(words1) = 1 /\ Len(words2) = 1 THEN TRUE
        ELSE IF contained /\ (Len(words1) = 1 \/ Len(words2) = 1) /\ InSeq(single_word, multi_words)
             THEN FALSE
        ELSE fuzzy

are_artists_similar(artist1, artist2, threshold) ==
    TheOne({TheOne({SimilarNormalized(artist1, artist2, norm1, norm2, words1, words2, threshold) :
                       words1 \in {Split(norm1)}, words2 \in {Split(norm2)}}) :
               norm1 \in {normalize_artist_name(artist1)}, norm2 \in {normalize_artist_name(artist2)}})

\* the containment test of lines 405-416 on the normalized names
IsPartOf(base_normalized, norm_artist, words_base, words_artist) ==
    /\ Contains(base_normalized, norm_artist) \/ Contains(norm_artist, base_normalized)
    /\ \/ Len(words_base) > 1 /\ Len(words_artist) = 1
       \/ Len(words_artist) > 1 /\ Len(words_base) = 1 /\ InSeq(words_base[1], words_artist)

\* the test of lines 396-416 that drops one related artist
IsFilteredOut(artist, base_artist) ==
    \/ are_artists_similar(base_artist, artist, 90)
    \/ TheOne({TheOne({IsPartOf(base_normalized, norm_artist, words_base, words_artist) :
                          words_base \in {Split(base_normalized)}, words_artist \in {Split(norm_artist)}}) :
                  base_normalized \in {normalize_artist_name(base_artist)},
                  norm_artist \in {normalize_artist_name(artist)}})

filter_related_artists(related, base_artist) ==
    TheOne({LET G[i \in 0..Len(r)] ==
                    IF i = 0 THEN <<>>
                    ELSE IF IsFilteredOut(r[i], b) THEN G[i - 1]
                    ELSE Append(G[i - 1], r[i])
            IN  G[Len(r)] :
               r \in {related}, b \in {base_artist}})

----------------------------------------------------------------------------
(* is_metal_artist: the genre classifier *)

\* artist.get_top_tags(limit): the tags returned, or an exception
TagsReturned(tags) == [raised |-> FALSE, tags |-> tags]

TagsRaise == [raised |-> TRUE, tags |-> <<>>]

\* artist.get_top_tags(limit=15)
TopTagsLimit == 15

\* metal_keywords, weights in tenths
metal_keywords == <<
       [keyword |-> "metal", weight |-> 20],
       [keyword |-> "heavy metal", weight |-> 20],
       [keyword |-> "death metal", weight |-> 20],
       [keyword |-> "black metal", weight |-> 20],
       [keyword |-> "thrash metal", weight |-> 20],
       [keyword |-> "power metal", weight |-> 20],
       [keyword |-> "folk metal", weight |-> 20],
       [keyword |-> "symphonic metal", weight |-> 20],
       [keyword |-> "doom metal", weight |-> 20],
       [keyword |-> "progressive metal", weight |-> 20],
       [keyword |-> "melodic death metal", weight |-> 20],
       [keyword |-> "grindcore", weight |-> 20],
       [keyword |-> "goregrind", weight |-> 20],
       [keyword |-> "deathcore", weight |-> 20],
       [keyword |-> "metalcore", weight |-> 20],
       [keyword |-> "hardcore", weight |-> 15],
       [keyword |-> "post-metal", weight |-> 20],
       [keyword |-> "avant-garde metal", weight |-> 20],
       [keyword |-> "sludge metal", weight |-> 20],
       [keyword |-> "stoner metal", weight |-> 20],
       [keyword |-> "nu metal", weight |-> 20],
       [keyword |-> "industrial metal", weight |-> 20],
       [keyword |-> "gothic metal", weight |-> 20],
       [keyword |-> "speed metal", weight |-> 20],
       [keyword |-> "glam metal", weight |-> 18],
       [keyword |-> "hair metal", weight |-> 18],
       [keyword |-> "neoclassical metal", weight |-> 20],
       [keyword |-> "djent", weight |-> 20],
       [keyword |-> "math metal", weight |-> 20],
       [keyword |-> "alternative metal", weight |-> 20],
       [keyword |-> "viking metal", weight |-> 20],
       [keyword |-> "pagan metal", weight |-> 20],
       [keyword |-> "war metal", weight |-> 20],
       [keyword |-> "brutal death metal", weight |-> 20],
       [keyword |-> "technical death metal", weight |-> 20],
       [keyword |-> "crust", weight |-> 18],
       [keyword |-> "hardcore punk", weight |-> 15],
       [keyword |-> "crossover thrash", weight |-> 20],
       [keyword |-> "grunge", weight |-> 10],
       [keyword |-> "extreme metal", weight |-> 20],
       [keyword |-> "underground metal", weight |-> 18],
       [keyword |-> "death", weight |-> 15],
       [keyword |-> "black", weight |-> 15],
       [keyword |-> "thrash", weight |-> 15],
       [keyword |-> "doom", weight |-> 15],
       [keyword |-> "power", weight |-> 15]
    >>

non_metal_tags == <<"pop", "hip hop", "rap", "r&b", "country", "jazz", "blues",
                    "classical", "electronic", "dance", "indie", "folk", "acoustic",
                    "singer-songwriter", "latin", "reggae", "soul", "funk", "disco">>

\* tags = artist.get_top_tags(limit=15)
\* tag_names = [tag.item.get_name().lower() for tag in tags]
TagNames(tags) ==
    TheOne({LET G[i \in 0..Min(Len(t), TopTagsLimit)] ==
                    IF i = 0 THEN <<>> ELSE Append(G[i - 1], Lower(t[i]))
            IN  G[Min(Len(t), TopTagsLimit)] :
               t \in {tags}})

\* one tag's contribution in the loop of lines 239-242
TagWeight(tag) ==
    TheOne({SumSeq([k \in 1..Len(metal_keywords) |->
                      IF Contains(metal_keywords[k].keyword, t) \/ Contains(t, metal_keywords[k].keyword)
                      THEN metal_keywords[k].weight ELSE 0]) :
               t \in {tag}})

MetalScore(names) == SumSeq([i \in 1..Len(names) |-> TagWeight(names[i])])

\* one tag's contribution in the loop of lines 250-253
TagNonMetalHits(tag) ==
    TheOne({SumSeq([k \in 1..Len(non_metal_tags) |-> IF Contains(non_metal_tags[k], t) THEN 1 ELSE 0]) :
               t \in {tag}})

NonMetalScore(names) == SumSeq([i \in 1..Len(names) |-> TagNonMetalHits(names[i])])

MetalDecisionStrict(ms, nms) == ms >= 15 /\ nms < 2

MetalDecisionNoDisqualifier(ms, nms) == ms >= 15 /\ nms = 0

MetalDecisionBelow(ms, nms) == ms <= 15 /\ nms <= 2

\* return metal_score >= 1.5 and non_metal_score <= 2
MetalDecision(ms, nms) == ms >= 15 /\ nms <= 2

\* is_metal_artist(lastfm_client, artist_name), given what get_top_tags does
is_metal_artist(client, tags) ==
    IF ~client THEN FALSE
    ELSE IF tags.raised THEN FALSE
    ELSE TheOne({MetalDecision(MetalScore(names), NonMetalScore(names)) :
                    names \in {TagNames(tags.tags)}})

----------------------------------------------------------------------------
(* Optional values: Python's None is the empty tuple, a value v is <<v>> *)

None == <<>>

Some(v) == <<v>>

\* the default of the max_attempts parameter
DefaultMaxAttempts == 8

\* the default of the threshold parameter of are_artists_similar
DefaultThreshold == 85

----------------------------------------------------------------------------
(* The classifier alone, over bounded tag lists *)

MaxTags == 3

TagUniverse == {"death metal", "Brutal Death Metal", "gore", "power pop", "indie folk",
                "pop", "country", "jazz", "classical"}

RECURSIVE SeqsUpTo(_, _)
SeqsUpTo(S, n) ==
    IF n = 0 THEN {<<>>}
    ELSE LET shorter == SeqsUpTo(S, n - 1)
         IN  shorter \cup {Append(q, x) : q \in {r \in shorter : Len(r) = n - 1}, x \in S}

TopTagsOutcomes == {TagsRaise} \cup {TagsReturned(q) : q \in SeqsUpTo(TagUniverse, MaxTags)}

\* the users of the application
AppUsers == {"metalhead", "Admin"}

\* a script run that is not in progress
IdleRun == [op |-> "idle"]

\* no page of the application is being served
NoPageRun ==
    /\ sessions = [u \in AppUsers |-> IdleRun]
    /\ last_like = [u \in AppUsers |-> None]

\* no session is being restored or opened
NoSessionActivity ==
    /\ remember_me = FALSE
    /\ query_params = None
    /\ now = 0
    /\ verified = {}
    /\ last_load = None

NoAppActivity == NoSessionActivity /\ NoPageRun

\* no discovery is running
NoDiscovery ==
    /\ NoAppActivity
    /\ spotify_client = FALSE
    /\ current_user = None
    /\ wall = <<>>
    /\ base_album_obj = None
    /\ max_attempts = DefaultMaxAttempts
    /\ random_album = None
    /\ base_artist_name_clean = ""
    /\ related_artists = <<>>
    /\ filtered_artists = <<>>
    /\ candidate_count = 0
    /\ attempts = 0
    /\ random_artist = ""
    /\ random_album_data = None
    /\ accepted_by = "none"
    /\ bandcamp_response = None
    /\ result = [data |-> None, error |-> None]
    /\ discoveries = <<>>
    /\ calls = {}

\* no comparison of names is running
NoComparison ==
    /\ s_artist1 = ""
    /\ s_artist2 = ""
    /\ s_threshold = DefaultThreshold
    /\ s_norm1 = ""
    /\ s_norm2 = ""
    /\ s_similar = FALSE

InitClassifier ==
    /\ pc = "is_metal_artist"
    /\ NoComparison
    /\ lastfm_client \in BOOLEAN
    /\ top_tags \in TopTagsOutcomes
    /\ tag_names = <<>>
    /\ metal_score = 0
    /\ non_metal_score = 0
    /\ is_metal = FALSE
    /\ NoDiscovery

\* lines 172-173: no client
ClassifyNoClient ==
    /\ pc = "is_metal_artist"
    /\ ~lastfm_client
    /\ pc' = "classified"
    /\ is_metal' = is_metal_artist(lastfm_client, top_tags)
    /\ UNCHANGED <<lastfm_client, top_tags, tag_names, metal_score, non_metal_score, discoverVars, nameVars, appVars>>

\* lines 259-261: the provider call raised
ClassifyRaise ==
    /\ pc = "is_metal_artist"
    /\ lastfm_client
    /\ top_tags.raised
    /\ pc' = "classified"
    /\ is_metal' = is_metal_artist(lastfm_client, top_tags)
    /\ UNCHANGED <<lastfm_client, top_tags, tag_names, metal_score, non_metal_score, discoverVars, nameVars, appVars>>

\* lines 175-257: tags fetched, scored, decided
ClassifyTags ==
    /\ pc = "is_metal_artist"
    /\ lastfm_client
    /\ ~top_tags.raised
    /\ pc' = "classified"
    /\ tag_names' = TagNames(top_tags.tags)
    /\ metal_score' = MetalScore(tag_names')
    /\ non_metal_score' = NonMetalScore(tag_names')
    /\ is_metal' = is_metal_artist(lastfm_client, top_tags)
    /\ UNCHANGED <<lastfm_client, top_tags, discoverVars, nameVars, appVars>>

NextClassifier == ClassifyNoClient \/ ClassifyRaise \/ ClassifyTags

SpecClassifier == InitClassifier /\ [][NextClassifier]_vars

----------------------------------------------------------------------------
(* are_artists_similar alone, over bounded artist names *)

\* the most lead-ins (articles, quotes) put in front of a name
MaxLeadIns == 1

BaseNames == {"Decapitation", "Cattle Decapitation", "Darkthrone", "darkthrone", "Haunted",
              "The Black Dahlia Murder", "black dahlia murder"}

LeadingArticles == {"the", "The", "a", "An"}

\* what a name can start with: an article and a space, or a quote
LeadIns == {article \o " " : article \in LeadingArticles} \cup {"\""}

RECURSIVE NamesWith(_)
\* the base names with at most n lead-ins in front
NamesWith(n) ==
    IF n = 0 THEN BaseNames
    ELSE TheOne({shorter \cup {lead \o name : lead \in LeadIns, name \in shorter} :
                    shorter \in {NamesWith(n - 1)}})

\* the thresholds the callers pass: the default 85 and filter_related_artists' 90
Thresholds == {DefaultThreshold, 90}

\* no classification is running
NoClassification ==
    /\ lastfm_client = FALSE
    /\ top_tags = TagsRaise
    /\ tag_names = <<>>
    /\ metal_score = 0
    /\ non_metal_score = 0
    /\ is_metal = FALSE

\* a call of are_artists_similar: a name with lead-ins and a base name, in
\* either argument order
InitNames ==
    /\ pc = "are_artists_similar"
    /\ \/ s_artist1 \in NamesWith(MaxLeadIns) /\ s_artist2 \in BaseNames
       \/ s_artist1 \in BaseNames /\ s_artist2 \in NamesWith(MaxLeadIns)
    /\ s_threshold \in Thresholds
    /\ s_norm1 = ""
    /\ s_norm2 = ""
    /\ s_similar = FALSE
    /\ NoClassification
    /\ NoDiscovery

\* lines 134-157: the value returned before fuzzy matching is reached, or None
ReturnedEarly(norm1, norm2, words1, words2) ==
    IF norm1 = norm2 THEN Some(TRUE)
    ELSE IF ~(Contains(norm1, norm2) \/ Contains(norm2, norm1)) THEN None
    ELSE IF Len(words1) = 1 /\ Len(words2) = 1 THEN Some(TRUE)
    ELSE IF (Len(words1) = 1 \/ Len(words2) = 1)
            /\ InSeq(IF Len(words1) = 1 THEN words1[1] ELSE words2[1],
                     IF Len(words1) = 1 THEN words2 ELSE words1)
    THEN Some(FALSE)
    ELSE None

\* lines 130-131
NormalizeNames ==
    /\ pc = "are_artists_similar"
    /\ s_norm1' = normalize_artist_name(s_artist1)
    /\ s_norm2' = normalize_artist_name(s_artist2)
    /\ pc' = "normalized"
    /\ UNCHANGED <<s_artist1, s_artist2, s_threshold, s_similar, clsVars, discoverVars, appVars>>

\* lines 133-157: a return on the normalized names and their words
CompareNormalized ==
    /\ pc = "normalized"
    /\ ReturnedEarly(s_norm1, s_norm2, Split(s_norm1), Split(s_norm2)) # None
    /\ s_similar' = are_artists_similar(s_artist1, s_artist2, s_threshold)
    /\ pc' = "compared"
    /\ UNCHANGED <<s_artist1, s_artist2, s_threshold, s_norm1, s_norm2, clsVars, discoverVars, appVars>>

\* lines 159-165: fuzzy matching decides
CompareFuzzy ==
    /\ pc = "normalized"
    /\ ReturnedEarly(s_norm1, s_norm2, Split(s_norm1), Split(s_norm2)) = None
    /\ s_similar' = are_artists_similar(s_artist1, s_artist2, s_threshold)
    /\ pc' = "compared"
    /\ UNCHANGED <<s_artist1, s_artist2, s_threshold, s_norm1, s_norm2, clsVars, discoverVars, appVars>>

NextNames == NormalizeNames \/ CompareNormalized \/ CompareFuzzy

SpecNames == InitNames /\ [][NextNames]_vars

----------------------------------------------------------------------------
(* Login, logout and the session token of the URL
   (utils/session_handler.py, utils/helpers.py, ui/components.py, app.py) *)

\* the clock counts half days
HalfDaysPerDay == 2

\* timedelta.days: whole days, rounded down (also below zero)
Days(delta) == delta \div HalfDaysPerDay

\* session_handler.py line 32: the age, in days, a token must stay below
SessionMaxDays == 7

\* the last value of the clock
MaxNow == 3

\* st.secrets: the password of each user
Secrets == [u \in AppUsers |-> IF u = "Admin" THEN "adm1n" ELSE "m3tal"]

\* what is typed into the login form
LoginNames == AppUsers \cup {"ghost"}

Passwords == {"m3tal", "adm1n", ""}

\* utils/helpers.py verify_credentials: the ok of the pair returned
verify_credentials(username, password) ==
    /\ username \in DOMAIN Secrets
    /\ Secrets[username] = password

\* json.dumps, base64.urlsafe_b64encode and datetime.isoformat: a text that
\* says how it was made, and what of
JsonDumps(data) == <<"json", data>>

B64Encode(text) == <<"b64", text>>

IsoFormat(t) == <<"iso", t>>

\* base64.urlsafe_b64decode, json.loads, datetime.fromisoformat: None when
\* the call raises
B64Decode(token) == IF token[1] = "b64" THEN Some(token[2]) ELSE None

JsonLoads(text) == IF text[1] = "json" THEN Some(text[2]) ELSE None

FromIsoFormat(text) == IF text[1] = "iso" THEN Some(text[2]) ELSE None

\* lines 14-20: the token for a user, made at a time
SessionToken(username, at) ==
    B64Encode(JsonDumps([username |-> username, remember_me |-> TRUE, timestamp |-> IsoFormat(at)]))

\* save_session_to_storage: the session parameter after the call
save_session_to_storage(user, remember, params, clock) ==
    IF remember /\ user # None THEN SessionToken(user[1], clock) ELSE params

\* lines 31-35, for the decoded session_data
LoadedFrom(session_data, user, remember, clock) ==
    LET unchanged == [current_user |-> user, remember_me |-> remember, returned |-> FALSE]
    IN  IF "timestamp" \notin DOMAIN session_data THEN unchanged
        ELSE IF FromIsoFormat(session_data.timestamp) = None THEN unchanged
        ELSE IF ~(Days(clock - FromIsoFormat(session_data.timestamp)[1]) < SessionMaxDays)
        THEN unchanged
        ELSE IF "username" \notin DOMAIN session_data THEN unchanged
        ELSE IF "remember_me" \notin DOMAIN session_data
        THEN [current_user |-> Some(session_data.username), remember_me |-> remember,
              returned |-> FALSE]
        ELSE [current_user |-> Some(session_data.username),
              remember_me |-> session_data.remember_me, returned |-> TRUE]

\* load_session_from_storage: current_user and remember_me after the call,
\* and the value returned
load_session_from_storage(params, user, remember, clock) ==
    LET unchanged == [current_user |-> user, remember_me |-> remember, returned |-> FALSE]
    IN  IF params = None THEN unchanged
        ELSE IF B64Decode(params) = None THEN unchanged
        ELSE IF JsonLoads(B64Decode(params)[1]) = None THEN unchanged
        ELSE LoadedFrom(JsonLoads(B64Decode(params)[1])[1], user, remember, clock)

\* the timestamps of the tokens a request brings: up to nine days old, of
\* now, and ahead of the clock
TokenTimes == {-18, -15, -14, -12, 0, MaxNow + 2}

\* session parameters that are not a token of save_session_to_storage
MalformedTokens ==
    {<<"text", "not base64">>,
     B64Encode(<<"text", "not json">>),
     B64Encode(JsonDumps([username |-> "Admin"])),
     B64Encode(JsonDumps([username |-> "Admin", timestamp |-> IsoFormat(0)])),
     B64Encode(JsonDumps([username |-> "Admin", remember_me |-> TRUE,
                          timestamp |-> <<"text", "yesterday">>]))}

\* the session parameter of a request: the URL is the client's to write
RequestTokens ==
    {None} \cup MalformedTokens \cup {SessionToken(u, t) : u \in AppUsers, t \in TokenTimes}

\* the record of a call of load_session_from_storage
LoadCall(params, user, remember, clock, loaded) ==
    [token |-> params, at |-> clock, user_before |-> user, remember_before |-> remember,
     user_after |-> loaded.current_user, remember_after |-> loaded.remember_me,
     returned |-> loaded.returned]

InitSession ==
    /\ pc = "main"
    /\ NoComparison
    /\ NoClassification
    /\ NoDiscovery

\* half a day passes
Tick ==
    /\ now < MaxNow
    /\ now' = now + 1
    /\ UNCHANGED <<pc, clsVars, discoverVars, nameVars, wallVars, remember_me, query_params,
                   verified, last_load>>

\* the frame of the actions of a session
SessionFrame ==
    UNCHANGED <<pc, clsVars, nameVars, wallVars, now, spotify_client, wall, base_album_obj,
                max_attempts, random_album, base_artist_name_clean, related_artists,
                filtered_artists, candidate_count, attempts, random_artist, random_album_data,
                accepted_by, bandcamp_response, result, discoveries, calls>>

\* app.py main, lines 25-31, for a browser that opens the application: a new
\* session state, the URL's session parameter, and the session restored from it
OpenSession ==
    /\ \E token \in RequestTokens :
       \E loaded \in {load_session_from_storage(token, None, FALSE, now)} :
           /\ query_params' = token
           /\ current_user' = loaded.current_user
           /\ remember_me' = loaded.remember_me
           /\ last_load' = LoadCall(token, None, FALSE, now, loaded)
    /\ UNCHANGED verified
    /\ SessionFrame

\* app.py main, lines 28-31, when the script runs again in a session nobody
\* is logged in to
Rerun ==
    /\ current_user = None
    /\ \E loaded \in {load_session_from_storage(query_params, current_user, remember_me, now)} :
           /\ current_user' = loaded.current_user
           /\ remember_me' = loaded.remember_me
           /\ last_load' = LoadCall(query_params, current_user, remember_me, now, loaded)
    /\ UNCHANGED <<query_params, verified>>
    /\ SessionFrame

\* render_login_form, lines 48 and 64-82: the form is submitted
Login ==
    /\ current_user = None
    /\ \E username \in LoginNames, password \in Passwords, remember \in BOOLEAN :
           IF verify_credentials(username, password)
           THEN /\ current_user' = Some(username)
                /\ remember_me' = remember
                /\ query_params' = save_session_to_storage(Some(username), remember, query_params, now)
                /\ verified' = verified \cup {username}
           ELSE UNCHANGED <<current_user, remember_me, query_params, verified>>
    /\ UNCHANGED last_load
    /\ SessionFrame

\* render_header, lines 16-24: the logout button
Logout ==
    /\ current_user # None
    /\ query_params' = None
    /\ current_user' = None
    /\ remember_me' = FALSE
    /\ UNCHANGED <<verified, last_load>>
    /\ SessionFrame

NextSession == Tick \/ OpenSession \/ Rerun \/ Login \/ Logout

SpecSession == InitSession /\ [][NextSession]_vars

----------------------------------------------------------------------------
(* The wall store and the providers' data.  Every provider call can also     *)
(* raise (network, rate limit, timeout); the actions choose that per call.   *)

\* rows of the albums table, as the dicts of get_random_album_from_wall
\* (the fields the discovery reads; the others are carried along unread)
WallAlbums == <<
    [id |-> 1, artist |-> "Cannibal Corpse", album_name |-> "Butchered at Birth",
     url |-> "https://cannibalcorpse.bandcamp.com/album/tomb"],
    [id |-> 2, artist |-> "Darkthrone | Spotify", album_name |-> "Panzerfaust",
     url |-> "https://open.spotify.com/album/dt1"],
    [id |-> 3, artist |-> "EP by ", album_name |-> "Untitled",
     url |-> "https://example.org/untitled"] >>

\* the origin['album'] that "Discover Another" passes back as base_album_obj
ProvidedSeed ==
    [id |-> 4, artist |-> "Cattle Decapitation", album_name |-> "Humanure",
     url |-> "https://open.spotify.com/album/cd1"]

\* the longest related-artist list a provider returns in the model
MaxRelated == 3

RelatedPoolA == <<"Dying Fetus", "darkthrone", "Nile (US)", "Autopsy">>

RelatedPoolB == <<"Dark Throne", "Deicide", "Decapitation">>

Prefixes(q, n) == {SubSeq(q, 1, k) : k \in 0..Min(n, Len(q))}

\* the related-artist lists a provider can return (the empty one included)
RelatedLists == Prefixes(RelatedPoolA, MaxRelated) \cup Prefixes(RelatedPoolB, MaxRelated)

\* related_artists.get("artists", [])[:10]
SpotifyRelatedLimit == 10

\* spotify_client.search(q='artist:"<q>"', type='artist', limit=5): the items
SpotifyArtistSearch(q) ==
    CASE q = "Dying Fetus"  -> << [id |-> "a1", name |-> "Dying Fetus", genres |-> <<"death metal">>] >>
      [] q = "darkthrone"   -> << [id |-> "a2", name |-> "Darkthrone", genres |-> <<"black metal">>] >>
      [] q = "Dark Throne"  -> << [id |-> "a2", name |-> "Darkthrone", genres |-> <<"black metal">>] >>
      [] q = "Deicide"      -> << [id |-> "a3", name |-> "Deicide", genres |-> <<>>] >>
      [] q \in {"Nile", "Nile (US)"} -> << [id |-> "a4", name |-> "Nile Rodgers", genres |-> <<"disco">>],
                                  [id |-> "a5", name |-> "Nile", genres |-> <<"death metal">>] >>
      [] q = "Decapitation" -> << [id |-> "a6", name |-> "Cattle Decapitation", genres |-> <<"deathgrind">>] >>
      [] OTHER              -> <<>>

\* spotify_client.artist_albums(artist_id, album_type='album,single', limit=50): the items
SpotifyArtistAlbums(artist_id) ==
    CASE artist_id = "a1" ->
           << [name |-> "Stop at Nothing", album_type |-> "album", images |-> <<"https://i.scdn.co/df1">>,
               url |-> "https://open.spotify.com/album/df1", release_date |-> "2000", total_tracks |-> 8],
              [name |-> "Infatuation (Live)", album_type |-> "album", images |-> <<>>,
               url |-> "https://open.spotify.com/album/df2", release_date |-> "1998", total_tracks |-> 9] >>
      [] artist_id = "a2" ->
           << [name |-> "Total Death", album_type |-> "album", images |-> <<>>,
               url |-> "https://open.spotify.com/album/dt2", release_date |-> "1992", total_tracks |-> 6] >>
      [] artist_id = "a3" ->
           << [name |-> "Best of Deicide", album_type |-> "compilation", images |-> <<>>,
               url |-> "https://open.spotify.com/album/de1", release_date |-> "2003", total_tracks |-> 20],
              [name |-> "Doomsday L.A. (Live)", album_type |-> "album", images |-> <<>>,
               url |-> "https://open.spotify.com/album/de2", release_date |-> "2006", total_tracks |-> 17] >>
      [] OTHER -> <<>>

\* spotify_client.search(q="artist:<q>", type="album", limit=20) and
\* spotify_client.album(id) on the item picked: the albums' details (artists
\* is the catalog's own credit of the album, which the adapter does not read)
SpotifyAlbumSearch(q) ==
    CASE q = "Decapitation" ->
           << [name |-> "Humanure", images |-> <<"https://i.scdn.co/cd1">>,
               url |-> "https://open.spotify.com/album/cd1", release_date |-> "2012", total_tracks |-> 11,
               genres |-> <<>>, artists |-> <<"Cattle Decapitation">>] >>
      [] q = "Nile" ->
           << [name |-> "Ithyphallic", images |-> <<>>,
               url |-> "https://open.spotify.com/album/ni1", release_date |-> "2005", total_tracks |-> 10,
               genres |-> <<>>, artists |-> <<"Nile">>] >>
      [] OTHER -> <<>>

\* the tag lists Last.fm holds for an artist in the model
MetalTags == <<"death metal", "brutal death metal", "gore">>

PopTags == <<"pop">>

HeavyRockTags == <<"Heavy Rock">>

\* what artist.get_top_tags() can do when the discovery asks for an artist's tags
DiscoveryTagOutcomes ==
    {TagsRaise, TagsReturned(MetalTags), TagsReturned(PopTags), TagsReturned(HeavyRockTags)}

\* what network.search_for_album(album, artist) can do: raise, or return
\* albums, of which the code reads the first one's artist and name
AlbumSearchRaise == [raised |-> TRUE, results |-> <<>>]

AlbumSearchReturned(results) == [raised |-> FALSE, results |-> results]

\* other bands Last.fm holds under a name close to the artist's
Namesakes(artist_name) == IF artist_name = "Deicide" THEN {"Deicidal"} ELSE {}

AlbumSearchOutcomes(album_name, artist_name) ==
    {AlbumSearchRaise, AlbumSearchReturned(<<>>),
     AlbumSearchReturned(<< [artist |-> artist_name, album |-> album_name] >>),
     AlbumSearchReturned(<< [artist |-> "The " \o artist_name, album |-> album_name] >>),
     AlbumSearchReturned(<< [artist |-> artist_name \o " Tribute", album |-> album_name] >>)}
    \cup {AlbumSearchReturned(<< [artist |-> other, album |-> album_name] >>) :
             other \in Namesakes(artist_name)}

\* what artist.get_top_albums(limit=20) can do: raise, or return album names
TopAlbumsRaise == [raised |-> TRUE, albums |-> <<>>]

TopAlbumsReturned(albums) == [raised |-> FALSE, albums |-> albums]

TopAlbumsOutcomes(album_name) ==
    {TopAlbumsRaise, TopAlbumsReturned(<<>>), TopAlbumsReturned(<<album_name>>)}

\* the longest similar-artist list artist.get_similar(limit=8) returns in the model
MaxSimilar == 4

\* artist.get_similar(limit=8)
SimilarLimit == 8

\* what artist.get_similar() can do: raise, or return artists, each given
\* here by what get_top_tags() then does for it
SimilarRaise == [raised |-> TRUE, artists |-> <<>>]

SimilarReturned(artists) == [raised |-> FALSE, artists |-> artists]

\* the similar artists of an artist, by their tags
SimilarPool == <<TagsReturned(PopTags), TagsReturned(<<"Death Metal">>), TagsReturned(<<"thrash">>),
                 TagsReturned(<<"doom metal">>), TagsRaise, TagsReturned(<<"black metal">>)>>

SimilarOutcomes ==
    {SimilarRaise, SimilarReturned(<<>>),
     SimilarReturned(SubSeq(SimilarPool, 1, Min(MaxSimilar, Len(SimilarPool)) - 1)),
     SimilarReturned(SubSeq(SimilarPool, 1, Min(MaxSimilar, Len(SimilarPool))))}

\* what the Bandcamp search page can do for a request: raise (connection,
\* timeout, HTTP status), or return a page; the page holds no result, or a
\* first result with or without a link, a heading and a subhead
PageRaise == [raised |-> TRUE, first_result |-> None]

PageReturned(first_result) == [raised |-> FALSE, first_result |-> first_result]

BandcampResponses(artist, record) ==
    {PageRaise, PageReturned(None),
     PageReturned(Some([href |-> None, heading |-> Some(record), subhead |-> None])),
     PageReturned(Some([href |-> Some("https://label.bandcamp.com/album/x?from=search"),
                        heading |-> None, subhead |-> None])),
     PageReturned(Some([href |-> Some("https://label.bandcamp.com/album/x?from=search"),
                        heading |-> Some(" " \o record \o " "), subhead |-> Some("by " \o artist)])),
     PageReturned(Some([href |-> Some("/album/x"),
                        heading |-> Some(record), subhead |-> None]))}

----------------------------------------------------------------------------
(* The provider adapters *)

Take(q, n) == SubSeq(q, 1, Min(Len(q), n))

\* what a related-artist call can do: raise, or return names
RelatedRaise == [raised |-> TRUE, artists |-> <<>>]

RelatedReturned(artists) == [raised |-> FALSE, artists |-> artists]

RelatedOutcomes == {RelatedRaise} \cup {RelatedReturned(q) : q \in RelatedLists}

\* services/spotify_service.py get_related_artists_spotify
get_related_artists_spotify(client, outcome) ==
    IF ~client \/ outcome.raised THEN <<>> ELSE Take(outcome.artists, SpotifyRelatedLimit)

\* services/lastfm_service.py get_related_artists_lastfm
get_related_artists_lastfm(client, outcome) ==
    IF ~client \/ outcome.raised THEN <<>> ELSE outcome.artists

\* the similarity of lines 442-448, with the penalty for a one-word name found
\* inside a longer Spotify name
PreciseSimilarity(artist_name, spotify_artist_name) ==
    TheOne({IF /\ Contains(a, b) \/ Contains(b, a)
               /\ Len(Split(artist_name)) = 1
               /\ Len(Split(spotify_artist_name)) > 1
            THEN ratio(a, b) - 30
            ELSE ratio(a, b) :
               a \in {Lower(artist_name)}, b \in {Lower(spotify_artist_name)}})

\* lines 450-452: best is [score, match] before the item, the result after it
BetterMatch(best, similarity, artist) ==
    IF similarity > best.score THEN [score |-> similarity, match |-> Some(artist)] ELSE best

RECURSIVE BestMatchFrom(_, _, _)
\* the loop of lines 440-452 over the items left, best being
\* [score, match] so far
BestMatchFrom(artist_name, items, best) ==
    IF Len(items) = 0 THEN best
    ELSE TheOne({BestMatchFrom(artist_name, rest, next) :
                    rest \in {Tail(items)},
                    next \in {BetterMatch(best, PreciseSimilarity(artist_name, Head(items).name),
                                          Head(items))}})

\* Need a good match (at least 85% similarity)
PreciseThreshold == 85

\* album_type and name tests of lines 467-479
IsValidAlbum(album) ==
    /\ album.album_type # "compilation"
    /\ ~Contains("live", Lower(album.name))
    /\ ~Contains("(live", Lower(album.name))

FilterSeq(Keep(_), q) ==
    LET F[i \in 0..Len(q)] ==
            IF i = 0 THEN <<>> ELSE IF Keep(q[i]) THEN Append(F[i - 1], q[i]) ELSE F[i - 1]
    IN  F[Len(q)]

\* images[0]['url'] if images else None
FirstImage(images) == IF Len(images) = 0 THEN None ELSE Some(images[1])

\* lines 483-499: the return value for each album random.choice can pick
PreciseAlbumsOf(best_match, albums, valid_albums) ==
    {Some([artist |-> best_match.name,
           album |-> album.name,
           image |-> FirstImage(album.images),
           url |-> album.url,
           release_date |-> album.release_date,
           total_tracks |-> album.total_tracks,
           genres |-> best_match.genres]) :
        album \in IF Len(valid_albums) = 0 THEN {albums[1]} ELSE SeqToSet(valid_albums)}

\* lines 459-499, from the best matching artist on
PreciseAlbumsBy(best_match) ==
    TheOne({IF Len(albums) = 0 THEN {None}
            ELSE TheOne({PreciseAlbumsOf(best_match, albums, valid_albums) :
                            valid_albums \in {FilterSeq(IsValidAlbum, albums)}}) :
               albums \in {SpotifyArtistAlbums(best_match.id)}})

\* get_precise_spotify_album with a client whose calls return: every value
\* random.choice can make it return
PreciseAlbums(artist_name) ==
    TheOne({IF Len(items) = 0 THEN {None}
            ELSE TheOne({IF best.score < PreciseThreshold THEN {None}
                         ELSE PreciseAlbumsBy(best.match[1]) :
                            best \in {BestMatchFrom(artist_name, items, [score |-> 0, match |-> None])}}) :
               items \in {SpotifyArtistSearch(artist_name)}})

\* get_precise_spotify_album: raised is whether one of its client calls raises
get_precise_spotify_album(client, artist_name, raised) ==
    IF ~client \/ raised THEN {None} ELSE PreciseAlbums(artist_name)

\* services/spotify_service.py get_random_album_by_artist
get_random_album_by_artist(client, artist_name, raised) ==
    IF ~client \/ raised THEN {None}
    ELSE TheOne({TheOne({IF Len(albums) = 0 THEN {None}
                         ELSE {Some([artist |-> name,
                                     album |-> album.name,
                                     image |-> FirstImage(album.images),
                                     url |-> album.url,
                                     release_date |-> album.release_date,
                                     total_tracks |-> album.total_tracks,
                                     genres |-> album.genres]) : album \in SeqToSet(albums)} :
                            albums \in {SpotifyAlbumSearch(name)}}) :
                    name \in {clean_artist_name(artist_name)}})

\* urllib.parse.quote on one ASCII character
QuoteChar(c) ==
    IF IsAlnum(c) \/ c \in {"_", ".", "-", "~", "/"} THEN c
    ELSE CASE c = " " -> "%20" [] c = "!" -> "%21" [] c = "\"" -> "%22" [] c = "#" -> "%23"
           [] c = "$" -> "%24" [] c = "%" -> "%25" [] c = "&" -> "%26" [] c = "'" -> "%27"
           [] c = "(" -> "%28" [] c = ")" -> "%29" [] c = "*" -> "%2A" [] c = "+" -> "%2B"
           [] c = "," -> "%2C" [] c = ":" -> "%3A" [] c = ";" -> "%3B" [] c = "=" -> "%3D"
           [] c = "?" -> "%3F" [] c = "@" -> "%40" [] c = "|" -> "%7C"

\* f"https://www.last.fm/music/{urllib.parse.quote(artist.replace(' ', '+'))}"
LastfmUrl(artist) == "https://www.last.fm/music/" \o MapChars(QuoteChar, Replace(artist, " ", "+"))

\* the basic discovery of lines 628-639
BasicDiscovery(artist) ==
    [artist |-> artist,
     album |-> "Random album by " \o artist,
     image |-> None,
     url |-> LastfmUrl(artist),
     release_date |-> "Unknown",
     total_tracks |-> 0,
     genres |-> <<>>]

bandcamp_search_unguarded(artist, record, response) ==
    IF response.raised \/ response.first_result = None
    THEN Some([artist |-> artist, album |-> record, url |-> ""])
    ELSE Some([artist |-> artist, album |-> record,
               url |-> IF response.first_result[1].href = None THEN ""
                       ELSE response.first_result[1].href[1]])

\* services/bandcamp_service.py bandcamp_search, given what the request does
bandcamp_search(artist, record, response) ==
    IF response.raised THEN None
    ELSE IF response.first_result = None THEN None
    ELSE LET first == response.first_result[1]
         IN  IF first.href = None THEN None
             ELSE IF first.heading = None THEN None
             ELSE LET href == BeforeFirst(first.href[1], "?")
                      clean_url == IF StartsWith(href, "/") THEN "https://bandcamp.com" \o href ELSE href
                      artist_name == IF first.subhead = None THEN artist
                                     ELSE Strip(Replace(first.subhead[1], "by ", ""))
                  IN  Some([artist |-> artist_name, album |-> Strip(first.heading[1]), url |-> clean_url])

\* lines 657-662 and 707-712: the bandcamp entry of the result
BandcampResult(bc_search_result) ==
    IF bc_search_result = None THEN None
    ELSE Some([url |-> bc_search_result[1].url,
               artist |-> bc_search_result[1].artist,
               album |-> bc_search_result[1].album])

\* Python: a or b on strings
OrElse(a, b) == IF a # "" THEN a ELSE b

prepare_discovery_for_posting_catalog_first(discovery, bandcamp) ==
    [url |-> IF discovery.url # "" THEN discovery.url
             ELSE IF bandcamp # None THEN bandcamp[1].url ELSE "",
     artist |-> discovery.artist,
     album |-> discovery.album,
     image_url |-> discovery.image]

\* prepare_discovery_for_posting
prepare_discovery_for_posting(discovery, bandcamp) ==
    IF bandcamp # None /\ bandcamp[1].url # ""
    THEN [url |-> bandcamp[1].url,
          artist |-> OrElse(bandcamp[1].artist, discovery.artist),
          album |-> OrElse(bandcamp[1].album, discovery.album),
          image_url |-> discovery.image]
    ELSE IF discovery.url # "" /\ Contains("open.spotify.com", discovery.url)
    THEN [url |-> discovery.url, artist |-> discovery.artist,
          album |-> discovery.album, image_url |-> discovery.image]
    ELSE IF discovery.artist # ""
    THEN [url |-> LastfmUrl(discovery.artist), artist |-> discovery.artist,
          album |-> discovery.album, image_url |-> discovery.image]
    ELSE [url |-> discovery.url, artist |-> discovery.artist,
          album |-> discovery.album, image_url |-> discovery.image]

----------------------------------------------------------------------------
(* validate_and_correct_metal_album and search_lastfm_artist *)

\* tags = artist.get_top_tags(limit=10)
CorrectionTagsLimit == 10

\* tag_names of lines 289-290 and 310-311
CorrectionTagNames(tags) ==
    TheOne({LET G[i \in 0..Min(Len(t), CorrectionTagsLimit)] ==
                    IF i = 0 THEN <<>> ELSE Append(G[i - 1], Lower(t[i]))
            IN  G[Min(Len(t), CorrectionTagsLimit)] :
               t \in {tags}})

\* fuzz.partial_ratio(...) > 70
AlbumMatchThreshold == 70

\* the threshold of lines 307 and 348
CorrectionThreshold == 70

\* the loop of lines 285-296 over the artist's top albums: the first album
\* whose name matches, or None
FirstMatchingAlbum(album_name, albums) ==
    TheOne({IF hits = {} THEN None
            ELSE Some(albums[CHOOSE i \in hits : \A j \in hits : i <= j]) :
               hits \in {{i \in 1..Len(albums) :
                            partial_ratio(Lower(album_name), Lower(albums[i])) > AlbumMatchThreshold}}})

\* lines 280-296: the artist asked and the first matching album of the
\* artist's top albums, or None
FromTopAlbums(album_name, clean_artist, top_albums) ==
    IF top_albums.raised THEN None
    ELSE TheOne({IF found = None THEN None
                 ELSE Some([artist |-> clean_artist, album |-> found[1]]) :
                    found \in {FirstMatchingAlbum(album_name, top_albums.albums)}})

\* lines 301-308: the first album of the search, if its artist is similar
FromSearch(clean_artist, album) ==
    IF ~are_artists_similar(album.artist, clean_artist, CorrectionThreshold) THEN None
    ELSE Some([artist |-> album.artist, album |-> album.album])

\* search_lastfm_artist up to the point where it asks for the artist's tags:
\* the artist and album found, or None.  search is what search_for_album()
\* does, top_albums what get_top_albums() does
SearchedAlbum(album_name, artist_name, search, top_albums) ==
    IF search.raised THEN None
    ELSE TheOne({IF Len(search.results) = 0
                 THEN \* lines 280-298; nothing is left to use at line 301
                      FromTopAlbums(album_name, clean_artist, top_albums)
                 ELSE FromSearch(clean_artist, search.results[1]) :
                    clean_artist \in {Strip(BeforeFirst(artist_name, "("))}})

\* the rest of search_lastfm_artist: tags is what get_top_tags() does
WithTags(found, tags) ==
    IF found = None \/ tags.raised THEN None
    ELSE Some([artist |-> found[1].artist,
               tags |-> CorrectionTagNames(tags.tags),
               album |-> found[1].album])

\* search_lastfm_artist(lastfm_client, album_name, artist_name)
search_lastfm_artist(client, album_name, artist_name, search, top_albums, tags) ==
    IF ~client THEN None
    ELSE WithTags(SearchedAlbum(album_name, artist_name, search, top_albums), tags)

\* the looser keyword list of lines 352-353
correction_keywords == <<"metal", "grindcore", "death", "thrash", "crust", "sludge",
                         "heavy", "black", "doom", "power", "progressive", "folk metal">>

\* metal_found of lines 355-362
MetalFound(tags) ==
    \E i \in 1..Len(tags) : \E k \in 1..Len(correction_keywords) :
        Contains(correction_keywords[k], tags[i])

\* At least 3 out of 8 similar are metal
SimilarVoteThreshold == 3

\* metal_similar_count of lines 374-378: similar.artists holds, for each
\* similar artist, what get_top_tags() does for it
MetalSimilarCount(similar) ==
    LET artists == Take(similar.artists, SimilarLimit)
    IN  SumSeq([i \in 1..Len(artists) |-> IF is_metal_artist(TRUE, artists[i]) THEN 1 ELSE 0])

----------------------------------------------------------------------------
(* discover_random_album *)

\* a smaller max_attempts, below the number of candidates
LowMaxAttempts == 2

\* the user names st.session_state holds in the model
UserNames == {"metalhead"}

NoAlbumsMessage == "No albums found in the wall"

NoArtistMessage == "Could not extract artist from album"

NoRelatedMessage(artist) == "No related artists found for " \o artist

ExhaustedMessage(n) ==
    "Could not find a valid metal album after " \o ToString(n) \o " attempts. Try again!"

FailureNothing(message) == [data |-> None, error |-> None]

\* return None, message
Failure(message) == [data |-> None, error |-> Some(message)]

\* return discovery_data, None
Success(discovery_data) == [data |-> Some(discovery_data), error |-> None]

\* the "validation" texts of lines 677 and 727, without their leading emoji
ValidatedNote == "Validated as metal"

UnvalidatedNoteAsValidated == "Validated as metal"

UnvalidatedNote == "Could not validate (Last.fm not available)"

get_random_album_from_wall_first(albums, load_raised) ==
    IF load_raised \/ Len(albums) = 0 THEN {Some(ProvidedSeed)}
    ELSE {Some(albums[i]) : i \in 1..Len(albums)}

\* get_random_album_from_wall: every album random.choice can return, as an
\* Optional; load_raised is whether load_albums() hit a database error
get_random_album_from_wall(albums, load_raised) ==
    IF load_raised \/ Len(albums) = 0 THEN {None}
    ELSE {Some(albums[i]) : i \in 1..Len(albums)}

RemoveNothing(q, x) == q

RemoveHead(q, x) == Tail(q)

\* list.remove(x): without the first element equal to x
Remove(q, x) ==
    LET i == CHOOSE k \in 1..Len(q) : q[k] = x /\ \A j \in 1..(k - 1) : q[j] # x
    IN  SubSeq(q, 1, i - 1) \o SubSeq(q, i + 1, Len(q))

\* random.shuffle: every order of the list
Shuffles(q) ==
    {[i \in 1..Len(q) |-> q[p[i]]] : p \in Permutations(1..Len(q))}

\* the discovery_data of lines 668-687 and 718-733
DiscoveryData(origin_album, album_data, bandcamp_result, artist, note) ==
    [origin |-> [album |-> origin_album,
                 artist |-> origin_album.artist,
                 album_name |-> origin_album.album_name],
     discovery |-> album_data,
     bandcamp |-> bandcamp_result,
     description |-> "Based on '" \o origin_album.album_name \o "' by " \o origin_album.artist
                     \o " -> Related artist: " \o artist,
     validation |-> note,
     posting_data |-> prepare_discovery_for_posting(album_data, bandcamp_result)]

\* database/operations.py save_discovery: the row inserted
DiscoveryRow(username, origin_album, album_data) ==
    [username |-> username,
     base_artist |-> origin_album.artist,
     base_album |-> origin_album.album_name,
     discovered_artist |-> album_data.artist,
     discovered_album |-> album_data.album,
     discovered_url |-> album_data.url,
     cover_url |-> album_data.image]

\* what a run starts from
Init ==
    /\ pc = "discover_random_album"
    /\ NoComparison
    /\ NoAppActivity
    /\ lastfm_client \in BOOLEAN
    /\ spotify_client \in BOOLEAN
    /\ current_user \in {None} \cup {Some(u) : u \in UserNames}
    /\ wall \in {<<>>, WallAlbums}
    /\ base_album_obj \in {None} \cup (IF wall = <<>> THEN {} ELSE {Some(ProvidedSeed)})
    /\ max_attempts \in {LowMaxAttempts, DefaultMaxAttempts}
    /\ top_tags = TagsRaise
    /\ tag_names = <<>>
    /\ metal_score = 0
    /\ non_metal_score = 0
    /\ is_metal = FALSE
    /\ random_album = None
    /\ base_artist_name_clean = ""
    /\ related_artists = <<>>
    /\ filtered_artists = <<>>
    /\ candidate_count = 0
    /\ attempts = 0
    /\ random_artist = ""
    /\ random_album_data = None
    /\ accepted_by = "none"
    /\ bandcamp_response = None
    /\ result = [data |-> None, error |-> None]
    /\ discoveries = <<>>
    /\ calls = {}

\* the arguments, the clients and the stores, which a run only reads
inputVars == <<lastfm_client, spotify_client, current_user, wall, base_album_obj, max_attempts>>

\* the locals of is_metal_artist
scoreVars == <<top_tags, tag_names, metal_score, non_metal_score, is_metal>>

\* the locals of the candidate loop
loopVars == <<filtered_artists, attempts, random_artist, random_album_data>>

\* lines 567-571: no seed given and none on the wall
SelectSeedNoAlbums ==
    /\ pc = "discover_random_album"
    /\ base_album_obj = None
    /\ \E load_raised \in BOOLEAN :
           /\ None \in get_random_album_from_wall(wall, load_raised)
           /\ result' = Failure(NoAlbumsMessage)
    /\ pc' = "done"
    /\ calls' = calls \cup {"wall"}
    /\ UNCHANGED <<nameVars, appVars, inputVars, scoreVars, loopVars, random_album, base_artist_name_clean,
                   related_artists, candidate_count, accepted_by, bandcamp_response, discoveries>>

SeedsFromWall(load_raised) == get_random_album_from_wall(wall, load_raised) \ {None}

\* the seed of lines 567-573: the one given, or one from the wall
Seeds(load_raised) ==
    IF base_album_obj = None THEN get_random_album_from_wall(wall, load_raised) \ {None}
    ELSE {base_album_obj}

\* lines 567-583: the seed's artist name is empty once cleaned
SelectSeedNoArtist ==
    /\ pc = "discover_random_album"
    /\ \E seed \in Seeds(FALSE) :
           /\ clean_artist_name(seed[1].artist) = ""
           /\ random_album' = seed
    /\ result' = Failure(NoArtistMessage)
    /\ pc' = "done"
    /\ calls' = IF base_album_obj = None THEN calls \cup {"wall"} ELSE calls
    /\ UNCHANGED <<nameVars, appVars, inputVars, scoreVars, loopVars, base_artist_name_clean,
                   related_artists, candidate_count, accepted_by, bandcamp_response, discoveries>>

\* lines 567-583: a seed with an artist name
SelectSeed ==
    /\ pc = "discover_random_album"
    /\ \E seed \in Seeds(FALSE) :
           /\ clean_artist_name(seed[1].artist) # ""
           /\ random_album' = seed
           /\ base_artist_name_clean' = clean_artist_name(seed[1].artist)
    /\ pc' = "find_related"
    /\ calls' = IF base_album_obj = None THEN calls \cup {"wall"} ELSE calls
    /\ UNCHANGED <<nameVars, appVars, inputVars, scoreVars, loopVars, related_artists, candidate_count,
                   accepted_by, bandcamp_response, result, discoveries>>

\* the related artists of lines 585-594, from what the two providers do
RelatedFrom(spotify, lastfm) ==
    LET from_spotify == IF spotify_client THEN get_related_artists_spotify(spotify_client, spotify)
                        ELSE <<>>
    IN  IF from_spotify = <<>> /\ lastfm_client
        THEN get_related_artists_lastfm(lastfm_client, lastfm)
        ELSE from_spotify

\* the providers asked at lines 585-594
RelatedCalls(spotify) ==
    (IF spotify_client THEN {"spotify.related"} ELSE {})
    \cup (IF lastfm_client /\ (~spotify_client \/ get_related_artists_spotify(spotify_client, spotify) = <<>>)
          THEN {"lastfm.related"} ELSE {})

\* lines 585-597: neither provider has related artists
FindRelatedNone ==
    /\ pc = "find_related"
    /\ \E spotify \in RelatedOutcomes, lastfm \in RelatedOutcomes :
           /\ RelatedFrom(spotify, lastfm) = <<>>
           /\ calls' = calls \cup RelatedCalls(spotify)
    /\ result' = Failure(NoRelatedMessage(base_artist_name_clean))
    /\ pc' = "done"
    /\ UNCHANGED <<nameVars, appVars, inputVars, scoreVars, loopVars, random_album, base_artist_name_clean,
                   related_artists, candidate_count, accepted_by, bandcamp_response, discoveries>>

\* lines 585-594: related artists found
FindRelated ==
    /\ pc = "find_related"
    /\ \E spotify \in RelatedOutcomes, lastfm \in RelatedOutcomes :
           /\ RelatedFrom(spotify, lastfm) # <<>>
           /\ related_artists' = RelatedFrom(spotify, lastfm)
           /\ calls' = calls \cup RelatedCalls(spotify)
    /\ pc' = "filter"
    /\ UNCHANGED <<nameVars, appVars, inputVars, scoreVars, loopVars, random_album, base_artist_name_clean,
                   candidate_count, accepted_by, bandcamp_response, result, discoveries>>

\* lines 599-609: the candidates of the loop
FilterCandidates ==
    /\ pc = "filter"
    /\ \E filtered \in {filter_related_artists(related_artists, base_artist_name_clean)} :
           /\ filtered_artists' \in (IF filtered = <<>> THEN Shuffles(related_artists) ELSE {filtered})
           /\ candidate_count' = Len(filtered_artists')
    /\ attempts' = 0
    /\ pc' = "loop"
    /\ UNCHANGED <<nameVars, appVars, inputVars, scoreVars, random_album, base_artist_name_clean, related_artists,
                   random_artist, random_album_data, accepted_by, bandcamp_response,
                   result, discoveries, calls>>

\* lines 623-639: the album when the precise search gave none, from the
\* fallback search or, if that gives none either, made up
FallbackAlbum(artist, fallback) ==
    IF fallback # None THEN fallback ELSE Some(BasicDiscovery(artist))

\* lines 610-639: one more attempt; an artist is drawn and removed, and an
\* album is looked up for it
TryCandidate ==
    /\ pc = "loop"
    /\ attempts < max_attempts
    /\ filtered_artists # <<>>
    /\ attempts' = attempts + 1
    /\ \E artist \in SeqToSet(filtered_artists) :
           /\ random_artist' = artist
           /\ filtered_artists' = Remove(filtered_artists, artist)
           /\ \E precise_raised \in BOOLEAN :
              \E precise \in get_precise_spotify_album(spotify_client, artist, precise_raised) :
                  IF precise # None
                  THEN random_album_data' = precise
                  ELSE \E fallback_raised \in BOOLEAN :
                       \E fallback \in get_random_album_by_artist(spotify_client, artist, fallback_raised) :
                           random_album_data' = FallbackAlbum(artist, fallback)
    /\ calls' = IF spotify_client THEN calls \cup {"spotify.catalog"} ELSE calls
    /\ pc' = IF lastfm_client THEN "validate" ELSE "unvalidated"
    /\ UNCHANGED <<nameVars, appVars, inputVars, scoreVars, random_album, base_artist_name_clean, related_artists,
                   candidate_count, accepted_by, bandcamp_response, result, discoveries>>

\* the locals of is_metal_artist, gone once its verdict has been used
ScoresDropped ==
    /\ top_tags' = TagsRaise
    /\ tag_names' = <<>>
    /\ metal_score' = 0
    /\ non_metal_score' = 0
    /\ is_metal' = FALSE

\* the locals of an attempt, gone at `continue`
Rejected ==
    /\ pc' = "loop"
    /\ random_artist' = ""
    /\ random_album_data' = None
    /\ ScoresDropped
    /\ accepted_by' = "none"

\* lines 336-341, Step 1: the classifier decides on the artist's own tags;
\* what it fetched and computed stays until Step 2 starts or, for an artist
\* it accepted, with the album
ValidateArtist ==
    /\ pc = "validate"
    /\ \E tags \in DiscoveryTagOutcomes :
           /\ top_tags' = tags
           /\ tag_names' = IF tags.raised THEN <<>> ELSE TagNames(tags.tags)
           /\ metal_score' = MetalScore(tag_names')
           /\ non_metal_score' = NonMetalScore(tag_names')
           /\ is_metal' = is_metal_artist(lastfm_client, tags)
    /\ IF is_metal'
       THEN /\ accepted_by' = "is_metal_artist"
            /\ pc' = "accepted"
       ELSE /\ pc' = "search_lastfm_artist"
            /\ UNCHANGED accepted_by
    /\ calls' = calls \cup {"lastfm.tags"}
    /\ UNCHANGED <<nameVars, appVars, inputVars, loopVars, random_album, base_artist_name_clean, related_artists,
                   candidate_count, bandcamp_response, result, discoveries>>

\* get_top_albums() is called only when the album search returned nothing
TopAlbumsAsked(search, album_name) ==
    IF ~search.raised /\ Len(search.results) = 0 THEN TopAlbumsOutcomes(album_name)
    ELSE {TopAlbumsRaise}

\* get_top_tags() is called only for an artist found
TagsAsked(found) == IF found = None THEN {TagsRaise} ELSE DiscoveryTagOutcomes

\* the outcome of Step 2, lines 341-367, for what search_lastfm_artist
\* returned: "accept", "reject" (return None, False) or "next" (Step 3);
\* is_similar is are_artists_similar(corrected_artist, artist_name, 70)
CorrectionOutcome(lastfm_info, is_similar) ==
    IF lastfm_info = None THEN "next"
    ELSE IF ~is_similar THEN "reject"
    ELSE IF MetalFound(lastfm_info[1].tags) THEN "accept"
    ELSE "next"

\* lines 341-367, Step 2: the album is searched on Last.fm; a similar artist
\* with a metal-like tag replaces the album's artist and the album is valid, a
\* dissimilar artist ends the attempt, anything else leads to Step 3
ValidateAlbumSearch ==
    /\ pc = "search_lastfm_artist"
    /\ \E artist_name \in {random_album_data[1].artist}, album_name \in {random_album_data[1].album} :
           \E search \in AlbumSearchOutcomes(album_name, artist_name) :
           \E top_albums \in TopAlbumsAsked(search, album_name) :
           \E found \in {SearchedAlbum(album_name, artist_name, search, top_albums)} :
           \E is_similar \in {/\ found # None
                              /\ are_artists_similar(found[1].artist, artist_name, CorrectionThreshold)} :
           \E tags \in TagsAsked(found) :
           \E lastfm_info \in {WithTags(found, tags)} :
           \E outcome \in {CorrectionOutcome(lastfm_info, is_similar)} :
               CASE outcome = "accept" ->
                      /\ random_album_data' =
                             Some([random_album_data[1] EXCEPT !.artist = lastfm_info[1].artist])
                      /\ accepted_by' = "search_lastfm_artist"
                      /\ pc' = "accepted"
                      /\ ScoresDropped
                      /\ UNCHANGED <<filtered_artists, attempts, random_artist>>
                 [] outcome = "reject" ->
                      /\ Rejected
                      /\ UNCHANGED <<filtered_artists, attempts>>
                 [] outcome = "next" ->
                      /\ pc' = "get_similar"
                      /\ ScoresDropped
                      /\ UNCHANGED <<loopVars, accepted_by>>
    /\ calls' = calls \cup {"lastfm.search"}
    /\ UNCHANGED <<nameVars, appVars, inputVars, random_album, base_artist_name_clean, related_artists,
                   candidate_count, bandcamp_response, result, discoveries>>

\* lines 369-387 and 698-700, Step 3: the album is valid if at least 3 of the
\* artist's similar artists are metal; if not, or if the call raised, the
\* attempt ends and the loop goes on
ValidateSimilar ==
    /\ pc = "get_similar"
    /\ \E similar \in SimilarOutcomes :
           IF ~similar.raised /\ MetalSimilarCount(similar) >= SimilarVoteThreshold
           THEN /\ accepted_by' = "get_similar"
                /\ pc' = "accepted"
                /\ UNCHANGED <<scoreVars, loopVars>>
           ELSE /\ Rejected
                /\ UNCHANGED <<filtered_artists, attempts>>
    /\ calls' = calls \cup {"lastfm.similar"}
    /\ UNCHANGED <<nameVars, appVars, inputVars, random_album, base_artist_name_clean, related_artists,
                   candidate_count, bandcamp_response, result, discoveries>>

\* lines 688-695: the history row, written if a user is logged in and the
\* insert does not fail
Saved(album_data, insert_raised) ==
    IF current_user # None /\ ~insert_raised
    THEN Append(discoveries, DiscoveryRow(current_user[1], random_album[1], album_data))
    ELSE discoveries

\* lines 647-697: the validated album is looked up on Bandcamp, the result
\* is assembled, saved to the history and returned
ReturnValidated ==
    /\ pc = "accepted"
    /\ \E album_data \in {random_album_data[1]} :
           /\ \E response \in BandcampResponses(album_data.artist, album_data.album) :
              \E bandcamp_result \in
                     {BandcampResult(bandcamp_search(album_data.artist, album_data.album, response))} :
                  /\ bandcamp_response' = Some(response)
                  /\ result' = Success(DiscoveryData(random_album[1], album_data, bandcamp_result,
                                                     random_artist, ValidatedNote))
           /\ \E insert_raised \in BOOLEAN : discoveries' = Saved(album_data, insert_raised)
    /\ calls' = calls \cup {"bandcamp"} \cup (IF current_user # None THEN {"save_discovery"} ELSE {})
    /\ pc' = "done"
    /\ UNCHANGED <<nameVars, appVars, inputVars, scoreVars, loopVars, random_album, base_artist_name_clean,
                   related_artists, candidate_count, accepted_by>>

\* lines 701-735: without a Last.fm client the album is returned as it is
ReturnUnvalidated ==
    /\ pc = "unvalidated"
    /\ \E album_data \in {random_album_data[1]} :
       \E response \in BandcampResponses(random_artist, album_data.album) :
       \E bandcamp_result \in
              {BandcampResult(bandcamp_search(random_artist, album_data.album, response))} :
           /\ bandcamp_response' = Some(response)
           /\ result' = Success(DiscoveryData(random_album[1], album_data, bandcamp_result,
                                              random_artist, UnvalidatedNote))
    /\ accepted_by' = "unvalidated"
    /\ calls' = calls \cup {"bandcamp"}
    /\ pc' = "done"
    /\ UNCHANGED <<nameVars, appVars, inputVars, scoreVars, loopVars, random_album, base_artist_name_clean,
                   related_artists, candidate_count, discoveries>>

ExhaustedWithLookup ==
    /\ pc = "loop"
    /\ ~(attempts < max_attempts /\ filtered_artists # <<>>)
    /\ result' = Failure(ExhaustedMessage(max_attempts))
    /\ bandcamp_response' = Some(PageRaise)
    /\ calls' = calls \cup {"bandcamp"}
    /\ pc' = "done"
    /\ UNCHANGED <<nameVars, appVars, inputVars, scoreVars, loopVars, random_album, base_artist_name_clean,
                   related_artists, candidate_count, accepted_by, discoveries>>

\* lines 609 and 737-738: no attempt or no candidate is left
Exhausted ==
    /\ pc = "loop"
    /\ ~(attempts < max_attempts /\ filtered_artists # <<>>)
    /\ result' = Failure(ExhaustedMessage(max_attempts))
    /\ pc' = "done"
    /\ UNCHANGED <<nameVars, appVars, inputVars, scoreVars, loopVars, random_album, base_artist_name_clean,
                   related_artists, candidate_count, accepted_by, bandcamp_response,
                   discoveries, calls>>

Next ==
    \/ SelectSeedNoAlbums
    \/ SelectSeedNoArtist
    \/ SelectSeed
    \/ FindRelatedNone
    \/ FindRelated
    \/ FilterCandidates
    \/ TryCandidate
    \/ ValidateArtist
    \/ ValidateAlbumSearch
    \/ ValidateSimilar
    \/ ReturnValidated
    \/ ReturnUnvalidated
    \/ Exhausted

Spec == Init /\ [][Next]_vars

----------------------------------------------------------------------------
(* The wall of albums served to two logged-in users at once: likes, album
   submissions and album edits (ui/components.py, ui/pages.py,
   database/operations.py).  Each user's script run is a thread of its own;
   a database call is one step.  Of a row of the albums table the model
   keeps the columns these handlers decide on. *)

\* the most rows the albums table gets
MaxAlbums == 2

\* the album URLs posted
AlbumUrls == {"https://band.bandcamp.com/album/one", "https://open.spotify.com/album/two"}

\* the row of an album posted, with no likes yet
AlbumRow(id, username, url) == [id |-> id, username |-> username, url |-> url, likes |-> <<>>]

\* the users in a likes list
Likers(likes) == {likes[i] : i \in 1..Len(likes)}

\* the row of the table with the id (the table's ids are 1, 2, ... in order)
RowOf(albums, id) == albums[id]

\* lines 233-236: the list after the button of a user is pressed
ToggledLikes(likes, user) ==
    IF user \in Likers(likes) THEN Remove(likes, user) ELSE Append(likes, user)

\* database/operations.py update_album_likes: the table after the call
update_album_likes(albums, album_id, likes_list, raised) ==
    IF raised THEN albums
    ELSE [i \in 1..Len(albums) |->
             IF albums[i].id = album_id THEN [albums[i] EXCEPT !.likes = likes_list] ELSE albums[i]]

\* database/operations.py check_duplicate_url: the value returned
check_duplicate_url(albums, url, raised) ==
    IF raised THEN FALSE
    ELSE Cardinality({i \in 1..Len(albums) : albums[i].url = url}) > 0

\* database/operations.py save_album: the table after the call
save_album(albums, username, url, raised) ==
    IF raised THEN albums ELSE Append(albums, AlbumRow(Len(albums) + 1, username, url))

\* database/operations.py update_album: the table after the call
update_album(albums, album_id, url, raised) ==
    IF raised THEN albums
    ELSE [i \in 1..Len(albums) |->
             IF albums[i].id = album_id THEN [albums[i] EXCEPT !.url = url] ELSE albums[i]]

\* components.py lines 105-106: can_edit
CanEdit(user, album) == user = "Admin" \/ user = album.username

\* the submissions that have passed the duplicate check and not saved yet
PendingSubmissions == {u \in AppUsers : sessions[u].op = "submit"}

\* no discovery is running; the wall is the albums table
InitWall ==
    /\ pc = "main_page"
    /\ NoComparison
    /\ NoClassification
    /\ NoAppActivity
    /\ spotify_client = FALSE
    /\ current_user = None
    /\ wall \in {<<>>} \cup {<<AlbumRow(1, u, url)>> : u \in AppUsers, url \in AlbumUrls}
    /\ base_album_obj = None
    /\ max_attempts = DefaultMaxAttempts
    /\ random_album = None
    /\ base_artist_name_clean = ""
    /\ related_artists = <<>>
    /\ filtered_artists = <<>>
    /\ candidate_count = 0
    /\ attempts = 0
    /\ random_artist = ""
    /\ random_album_data = None
    /\ accepted_by = "none"
    /\ bandcamp_response = None
    /\ result = [data |-> None, error |-> None]
    /\ discoveries = <<>>
    /\ calls = {}

\* the frame of the actions on the wall
WallFrame ==
    UNCHANGED <<pc, clsVars, nameVars, sessVars, spotify_client, current_user, base_album_obj,
                max_attempts, random_album, base_artist_name_clean, related_artists,
                filtered_artists, candidate_count, attempts, random_artist, random_album_data,
                accepted_by, bandcamp_response, result, discoveries, calls>>

\* pages.py render_albums_list, line 294, in the script run a like button
\* started: load_albums() gives the run its Album objects
LoadAlbumsForLike(u) ==
    /\ sessions[u].op = "idle"
    /\ \E id \in 1..Len(wall) :
           sessions' = [sessions EXCEPT ![u] = [op |-> "like", album |-> RowOf(wall, id)]]
    /\ UNCHANGED <<wall, last_like>>
    /\ WallFrame

\* render_like_button, lines 232-238: the user is added to or removed from
\* the run's album.likes, and the list is written
WriteLike(u) ==
    /\ sessions[u].op = "like"
    /\ \E album \in {sessions[u].album}, update_raised \in BOOLEAN :
       \E likes \in {ToggledLikes(album.likes, u)} :
           /\ wall' = update_album_likes(wall, album.id, likes, update_raised)
           /\ last_like' = IF update_raised THEN last_like
                           ELSE [last_like EXCEPT ![u] =
                                    Some([album |-> album.id, loaded |-> album.likes,
                                          added |-> u \notin Likers(album.likes)])]
    /\ sessions' = [sessions EXCEPT ![u] = IdleRun]
    /\ WallFrame

\* handle_album_submission, lines 223-259: the duplicate check, and what is
\* asked of the form before anything is saved (complete: artist and album
\* name given, or metadata extracted)
CheckDuplicate(u) ==
    /\ sessions[u].op = "idle"
    /\ Len(wall) + Cardinality(PendingSubmissions) < MaxAlbums
    /\ \E url \in AlbumUrls \cup {""}, complete \in BOOLEAN, check_raised \in BOOLEAN :
           IF check_duplicate_url(wall, url, check_raised) \/ url = "" \/ ~complete
           THEN UNCHANGED sessions
           ELSE sessions' = [sessions EXCEPT ![u] = [op |-> "submit", url |-> url]]
    /\ UNCHANGED <<wall, last_like>>
    /\ WallFrame

\* handle_album_submission, lines 233-250 and 260-277: the album is saved
SaveAlbum(u) ==
    /\ sessions[u].op = "submit"
    /\ \E save_raised \in BOOLEAN : wall' = save_album(wall, u, sessions[u].url, save_raised)
    /\ sessions' = [sessions EXCEPT ![u] = IdleRun]
    /\ UNCHANGED last_like
    /\ WallFrame

\* render_album_edit_form, lines 170-180: the changes of an album the user
\* can edit are saved
SaveChanges(u) ==
    /\ sessions[u].op = "idle"
    /\ \E id \in 1..Len(wall), new_url \in AlbumUrls, update_raised \in BOOLEAN :
           /\ CanEdit(u, RowOf(wall, id))
           /\ wall' = update_album(wall, id, new_url, update_raised)
    /\ UNCHANGED <<sessions, last_like>>
    /\ WallFrame

NextWall ==
    \E u \in AppUsers :
        \/ LoadAlbumsForLike(u)
        \/ WriteLike(u)
        \/ CheckDuplicate(u)
        \/ SaveAlbum(u)
        \/ SaveChanges(u)

SpecWall == InitWall /\ [][NextWall]_vars

----------------------------------------------------------------------------
(* Properties of discover_random_album, under Spec *)

\* the call has returned a discovery
Returned == pc = "done" /\ result.data # None

\* the call has returned the error of line 738
ExhaustedRun == pc = "done" /\ result.error = Some(ExhaustedMessage(max_attempts))

\* C1: a discovery is returned only if the classifier accepted the artist on
\* the artist's own tags, or there was no Last.fm client and the result says
\* it is not validated.  The album search of Step 2 and the similar artists
\* of Step 3 also accept, so this does not hold.
C1_OnlyClassifiedOrUnvalidated ==
    Returned =>
        \/ lastfm_client /\ is_metal /\ accepted_by = "is_metal_artist"
        \/ ~lastfm_client /\ result.data[1].validation = UnvalidatedNote

\* C2 as stated: with a Last.fm client, a run that ends with the error of
\* line 738 has made min(max_attempts, number of related artists) attempts
C2_AttemptsOverRelated ==
    ExhaustedRun /\ lastfm_client => attempts = Min(max_attempts, Len(related_artists))

\* the list the loop of line 609 starts with
Candidates ==
    IF filter_related_artists(related_artists, base_artist_name_clean) = <<>> THEN related_artists
    ELSE filter_related_artists(related_artists, base_artist_name_clean)

\* how far a point of the run is from the return, within one attempt
StepsLeft ==
    CASE pc = "done" -> 0
      [] pc \in {"accepted", "unvalidated"} -> 1
      [] pc = "loop" -> 2
      [] pc = "get_similar" -> 3
      [] pc = "search_lastfm_artist" -> 4
      [] pc = "validate" -> 5
      [] pc = "filter" -> 6
      [] pc = "find_related" -> 7
      [] pc = "discover_random_album" -> 8

\* a bound on the steps left in the run: those of the attempts that can still
\* be made, 6 being more than the steps of one attempt, and those of StepsLeft
Variant == 6 * (max_attempts - attempts) + StepsLeft

\* C2: every run ends, for it never stops before it returns, and each step
\* lowers Variant, which is never negative; a run that ends with the error of
\* line 738 had a Last.fm client and made min(max_attempts, number of
\* candidates) attempts, the candidates being the related artists the filter
\* kept, or all of them if it kept none
C2_AttemptsOverCandidates ==
    /\ [](ExhaustedRun => /\ lastfm_client
                          /\ candidate_count = Len(Candidates)
                          /\ attempts = Min(max_attempts, candidate_count))
    /\ [](Variant >= 0 /\ (pc # "done" => ENABLED Next))
    /\ [][Variant' < Variant]_vars

\* a run out of candidates before max_attempts, the filter having dropped one
C2_Witness ==
    /\ ExhaustedRun
    /\ attempts = candidate_count
    /\ candidate_count < Len(related_artists)
    /\ attempts < max_attempts

\* the catalog has an album for the artist
Resolvable(artist) ==
    \/ get_precise_spotify_album(TRUE, artist, FALSE) # {None}
    \/ get_random_album_by_artist(TRUE, artist, FALSE) # {None}

\* C3 as stated: without a Last.fm client, if a related artist has an album
\* in the catalog, the run returns an album of the catalog, not classified
\* and noted as not validated
C3_FirstResolved ==
    /\ pc = "done"
    /\ ~lastfm_client
    /\ \E i \in 1..Len(related_artists) : Resolvable(related_artists[i])
    => /\ result.data # None
       /\ result.data[1].validation = "Could not validate (Last.fm not available)"
       /\ "lastfm.tags" \notin calls
       /\ result.data[1].discovery # BasicDiscovery(random_artist)

\* C3: without a Last.fm client, a run that found related artists returns the
\* first artist drawn, after one attempt and without any call to Last.fm for
\* tags, with the note of line 727; the album is one of the catalog or, if
\* the catalog gave none, the made-up album of lines 628-639
C3_FirstDrawn ==
    pc = "done" /\ ~lastfm_client /\ related_artists # <<>> =>
        /\ result.data # None
        /\ result.error = None
        /\ result.data[1].validation = "Could not validate (Last.fm not available)"
        /\ attempts = 1
        /\ InSeq(random_artist, related_artists)
        /\ calls \cap {"lastfm.tags", "lastfm.search", "lastfm.similar"} = {}
        /\ top_tags = TagsRaise /\ ~is_metal
        /\ result.data[1].discovery = random_album_data[1]
        /\ \/ result.data[1].discovery = BasicDiscovery(random_artist)
           \/ Contains("open.spotify.com", result.data[1].discovery.url)

\* the made-up album is returned although another related artist has an album
C3_Witness ==
    /\ pc = "done"
    /\ ~lastfm_client
    /\ result.data # None
    /\ result.data[1].discovery = BasicDiscovery(random_artist)
    /\ \E i \in 1..Len(related_artists) : Resolvable(related_artists[i])

\* C4: a run that has returned holds a discovery or an error message, and
\* never both or neither
C4_DataOrError ==
    pc = "done" => (result.data = None) # (result.error = None)

\* both providers of related artists were asked and gave nothing
C4_Witness ==
    /\ pc = "done"
    /\ result = [data |-> None, error |-> Some(NoRelatedMessage(base_artist_name_clean))]
    /\ calls = {"wall", "spotify.related", "lastfm.related"}

\* the seed is by Cannibal Corpse, its one related artist is Dying Fetus, and
\* Last.fm gave the tags death metal, brutal death metal, gore for the artist
DyingFetusRun ==
    /\ random_album # None
    /\ random_album[1].artist = "Cannibal Corpse"
    /\ related_artists = <<"Dying Fetus">>
    /\ lastfm_client
    /\ top_tags = TagsReturned(MetalTags)

BandcampFailed ==
    /\ bandcamp_response # None
    /\ \/ bandcamp_response[1].raised
       \/ bandcamp_response[1].first_result = None
       \/ bandcamp_response[1].first_result[1].href = None
       \/ bandcamp_response[1].first_result[1].heading = None

\* C6: when the Bandcamp lookup fails for the accepted album, the run still
\* returns a discovery, and its bandcamp entry is None
C6_BandcampNone ==
    pc = "done" /\ BandcampFailed =>
        /\ result.data # None
        /\ result.error = None
        /\ result.data[1].bandcamp = None

\* the request raised for an album the classifier accepted
C6_Witness ==
    /\ Returned
    /\ accepted_by = "is_metal_artist"
    /\ bandcamp_response = Some(PageRaise)

\* C7: without a seed and with an empty wall, no provider is ever called, and
\* the run returns the error of line 571
C7_NoAlbums ==
    base_album_obj = None /\ wall = <<>> =>
        /\ calls \subseteq {"wall"}
        /\ pc \in {"discover_random_album", "done"}
        /\ pc = "done" => result = [data |-> None, error |-> Some(NoAlbumsMessage)]

\* the run has returned
C7_Witness ==
    /\ base_album_obj = None
    /\ wall = <<>>
    /\ pc = "done"
    /\ result.error = Some(NoAlbumsMessage)
    /\ calls = {"wall"}

----------------------------------------------------------------------------
(* Further properties of discover_random_album, under Spec *)

\* C14: the error of a run that found no validated album carries the number
\* of candidate attempts the run made and the seed (its artist and album).
C14_ErrorContext ==
    ExhaustedRun =>
        /\ Contains(" " \o ToString(attempts) \o " attempts", result.error[1])
        /\ Contains(random_album[1].artist, result.error[1])
        /\ Contains(random_album[1].album_name, result.error[1])

\* C15: the Tag Provider (Last.fm) is asked for related artists first and the
\* Catalog Provider (Spotify) only after it: whenever the catalog was asked and
\* a Tag Provider is there, the Tag Provider was asked; the run fails with "No
\* related artists" only if no provider was left that could have returned some.
C15_TagProviderFirst ==
    /\ "spotify.related" \in calls /\ lastfm_client => "lastfm.related" \in calls
    /\ pc = "done" /\ result.error = Some(NoRelatedMessage(base_artist_name_clean))
           => /\ related_artists = <<>>
              /\ spotify_client => "spotify.related" \in calls
              /\ lastfm_client => "lastfm.related" \in calls

\* a candidate has been drawn and not yet given up
CandidateDrawn == attempts > 0 /\ pc \in {"validate", "search_lastfm_artist", "get_similar",
                                          "accepted", "unvalidated"}

\* C16: no candidate similar to the seed artist at threshold 90 is ever tried
\* or returned, also when every related artist is similar to the seed.
C16_SimilarNeverTried ==
    CandidateDrawn \/ Returned => ~are_artists_similar(base_artist_name_clean, random_artist, 90)

\* after is before without one entry equal to x
IsRemovalOf(after, before, x) ==
    \E i \in 1..Len(before) :
        /\ before[i] = x
        /\ after = SubSeq(before, 1, i - 1) \o SubSeq(before, i + 1, Len(before))

\* C17: each attempt draws its candidate from the remaining pool and removes
\* that entry from it; the pool holds the candidates not drawn yet (so no
\* entry is drawn twice); attempts never exceed max_attempts nor the number
\* of candidates the loop started with.
C17_WithoutReplacement ==
    /\ [](/\ attempts <= max_attempts
          /\ attempts <= candidate_count
          /\ Len(filtered_artists) = candidate_count - attempts)
    /\ [][attempts' # attempts =>
             /\ attempts' = attempts + 1
             /\ InSeq(random_artist', filtered_artists)
             /\ IsRemovalOf(filtered_artists', filtered_artists, random_artist')]_vars

\* C17 happens: two candidates of three were drawn, two different ones, and
\* the third is what remains
C17_Witness ==
    /\ pc = "validate"
    /\ candidate_count = 3
    /\ attempts = 2
    /\ Len(filtered_artists) = 1
    /\ ~InSeq(random_artist, filtered_artists)

\* the exact-artist lookup (get_precise_spotify_album) can return this album
\* for the artist
ExactlyResolved(artist, album_data) ==
    \E precise \in get_precise_spotify_album(TRUE, artist, FALSE) :
        precise # None /\ precise[1].url = album_data.url

\* C18: a candidate for which the catalog finds no exact artist match, or no
\* album, is skipped: the album passed on to validation, accepted or
\* returned is one the exact-artist lookup resolved for the candidate.
C18_UnresolvedSkipped ==
    /\ CandidateDrawn => ExactlyResolved(random_artist, random_album_data[1])
    /\ Returned => ExactlyResolved(random_artist, result.data[1].discovery)

\* the best score of lines 437-452 for the artist searched
BestScore(artist_name) ==
    BestMatchFrom(artist_name, SpotifyArtistSearch(artist_name), [score |-> 0, match |-> None]).score

\* the catalog's albums that get_random_album_by_artist can fetch for the artist
FetchedLoosely(artist_name) == SeqToSet(SpotifyAlbumSearch(clean_artist_name(artist_name)))

\* C19: the exact-artist lookup returns none whenever the best similarity
\* score is below 85, and no album of an artist that scores below 85 against
\* the candidate's name is fetched for the candidate.
C19_NoLooseMatchFetched ==
    CandidateDrawn =>
        /\ BestScore(random_artist) < PreciseThreshold
               => get_precise_spotify_album(TRUE, random_artist, FALSE) = {None}
        /\ \A album \in FetchedLoosely(random_artist) :
               album.url = random_album_data[1].url
                   => PreciseSimilarity(random_artist, album.artists[1]) >= PreciseThreshold

\* C20: the artist of an accepted or returned album, corrected by the Tag
\* Provider or not, is similar to the candidate drawn at threshold 85.
C20_CorrectedStaysSimilar ==
    /\ pc = "accepted" => are_artists_similar(random_album_data[1].artist, random_artist, 85)
    /\ Returned /\ lastfm_client
           => are_artists_similar(result.data[1].discovery.artist, random_artist, 85)

\* the catalog calls made for the candidate failed or returned nothing: the
\* album is the placeholder of lines 627-639
CatalogMissed == random_album_data # None /\ random_album_data[1].url = LastfmUrl(random_artist)

\* C22: a provider call that fails or returns nothing while a candidate is
\* tried never ends the run with an error while attempts and candidates
\* remain, and the attempt is a miss: a candidate the catalog had nothing for
\* is neither accepted nor returned.
C22_FailureIsMiss ==
    /\ pc = "done" /\ result.error # None /\ attempts > 0
           => /\ result.error = Some(ExhaustedMessage(max_attempts))
              /\ attempts = max_attempts \/ filtered_artists = <<>>
    /\ pc \in {"accepted", "unvalidated"} \/ Returned => ~CatalogMissed

\* C23: when a seed album is passed in, the wall is not read, the seed used
\* and the seed recorded in the result are the album passed in; no step of a
\* run changes the wall.
C23_ProvidedSeedKept ==
    /\ [](base_album_obj # None
             => /\ "wall" \notin calls
                /\ random_album # None => random_album = base_album_obj
                /\ Returned => /\ result.data[1].origin.album = base_album_obj[1]
                               /\ result.data[1].origin.artist = base_album_obj[1].artist
                               /\ result.data[1].origin.album_name = base_album_obj[1].album_name)
    /\ [][wall' = wall]_vars

\* C23 happens: a run that was given a seed, over a wall with other albums,
\* has returned a discovery
C23_Witness ==
    /\ Returned
    /\ base_album_obj = Some(ProvidedSeed)
    /\ wall = WallAlbums
    /\ result.data[1].origin.album = ProvidedSeed

\* C24: a run that returns a discovery while a user is logged in has written
\* exactly one record to the discovery history, the one of the discovery
\* returned, in validated and in degraded mode; a run that returns an error
\* has written none.
C24_OneRecordPerSuccess ==
    /\ Returned /\ current_user # None
           => discoveries = <<DiscoveryRow(current_user[1], random_album[1], result.data[1].discovery)>>
    /\ pc = "done" /\ result.error # None => discoveries = <<>>

\* C25: the Bandcamp lookup is made only for a candidate that has been
\* accepted (validated, or taken as it is in degraded mode), at most once in
\* a run, and the run then returns that candidate's discovery; a run that
\* ends in an error has made none.
C25_LookupAfterAcceptance ==
    /\ [](/\ "bandcamp" \in calls <=> bandcamp_response # None
          /\ bandcamp_response # None => Returned
          /\ pc = "done" /\ result.error # None => "bandcamp" \notin calls)
    /\ [][bandcamp_response' # bandcamp_response =>
             /\ bandcamp_response = None
             /\ pc \in {"accepted", "unvalidated"}
             /\ accepted_by' # "none"
             /\ result'.data # None
             /\ result'.data[1].discovery = random_album_data[1]]_vars

\* C25 happens: a discovery was returned with its Bandcamp lookup made, after
\* an earlier candidate had been rejected without one
C25_Witness ==
    /\ Returned
    /\ lastfm_client
    /\ attempts = 2
    /\ "bandcamp" \in calls
    /\ bandcamp_response # None

\* C26: the posting data of a returned discovery has the Bandcamp URL when
\* there is a Bandcamp match with a URL, otherwise the catalog's album URL
\* when the catalog gave an album, otherwise the Last.fm URL of the artist;
\* its URL is not empty when the discovered artist name is not empty.
C26_PostingUrl ==
    Returned =>
        LET d == result.data[1]
        IN  /\ d.posting_data.url =
                   (IF d.bandcamp # None /\ d.bandcamp[1].url # "" THEN d.bandcamp[1].url
                    ELSE IF ~CatalogMissed THEN d.discovery.url
                    ELSE LastfmUrl(d.discovery.artist))
            /\ d.discovery.artist # "" => d.posting_data.url # ""

\* C26 happens: a discovery with a catalog album and a Bandcamp match was
\* returned, and its posting data has the Bandcamp URL
C26_Witness ==
    /\ Returned
    /\ ~CatalogMissed
    /\ result.data[1].bandcamp # None
    /\ result.data[1].discovery.url = "https://open.spotify.com/album/df1"
    /\ result.data[1].posting_data.url = "https://bandcamp.com/album/x"

----------------------------------------------------------------------------
(* Properties of the genre classifier, under SpecClassifier *)

\* the classifier ran on a fetched tag list
Classified == pc = "classified" /\ lastfm_client /\ ~top_tags.raised

HasTag(t) == \E i \in 1..Len(top_tags.tags) : top_tags.tags[i] = t

\* C8: a tag list is classified metal if and only if its accumulated metal
\* score is at least 1.5 and its accumulated disqualifying hits are at most 2;
\* the empty tag list is not metal.
C8_ClassifierRule ==
    pc = "classified" =>
        /\ is_metal <=> (metal_score >= 15 /\ non_metal_score <= 2)
        /\ (~top_tags.raised /\ top_tags.tags = <<>>) => ~is_metal

C8_Witness ==
    Classified /\ is_metal /\ metal_score = 15 /\ non_metal_score = 2

C10_NonMetalOnly ==
    (Classified /\ \A i \in 1..Len(top_tags.tags) :
                      top_tags.tags[i] \in {"pop", "country", "jazz", "classical"})
        => ~is_metal

\* the number of tags that contain at least one disqualifying keyword
DisqualifyingTags ==
    Cardinality({i \in 1..Len(tag_names) :
                    \E k \in 1..Len(non_metal_tags) : Contains(non_metal_tags[k], tag_names[i])})

\* C21: the disqualifying count is the number of tags that contain a
\* disqualifying keyword, each tag counted once; a tag list with metal score
\* at least 1.5 and at most two such tags is classified metal.
C21_TagsCountedOnce ==
    Classified =>
        /\ non_metal_score = DisqualifyingTags
        /\ metal_score >= 15 /\ DisqualifyingTags <= 2 => is_metal

----------------------------------------------------------------------------
(* Properties of are_artists_similar and normalize_artist_name, under SpecNames *)

Compared == pc = "compared"

Normalized == pc \in {"normalized", "compared"}

\* single is one word, multi has several, and single is one of them
OneWordOf(single, multi) ==
    /\ Len(Split(single)) = 1
    /\ Len(Split(multi)) > 1
    /\ InSeq(Split(single)[1], Split(multi))

\* the example of the anti-confusion guard, in either argument order
CattleDecapitationCall == {s_artist1, s_artist2} = {"Cattle Decapitation", "Decapitation"}

\* C11 as stated: a one-word name that is one of the words of a multi-word
\* name (letter case aside) is not similar to it at 85 and at 90, in either
\* argument order; "Cattle Decapitation" and "Decapitation" are not similar;
\* names that differ only in letter case are similar.
C11_RawWordGuard ==
    Compared =>
        /\ \/ OneWordOf(Lower(s_artist1), Lower(s_artist2))
           \/ OneWordOf(Lower(s_artist2), Lower(s_artist1))
           => ~s_similar
        /\ CattleDecapitationCall => ~s_similar
        /\ Lower(s_artist1) = Lower(s_artist2) => s_similar

\* C11: a name whose normalized form is one word that is one of the several
\* words of the other name's normalized form is not similar to it at 85 and
\* at 90, in either argument order; "Cattle Decapitation" and "Decapitation"
\* are not similar; names that differ only in letter case are similar.
C11_NormalizedWordGuard ==
    Compared =>
        /\ OneWordOf(s_norm1, s_norm2) \/ OneWordOf(s_norm2, s_norm1) => ~s_similar
        /\ CattleDecapitationCall => ~s_similar
        /\ Lower(s_artist1) = Lower(s_artist2) => s_similar

\* C11 happens: the guard refuses "Decapitation" for "Cattle Decapitation" at 90
C11_Witness ==
    /\ Compared
    /\ s_artist1 = "Cattle Decapitation"
    /\ s_artist2 = "Decapitation"
    /\ s_threshold = 90
    /\ OneWordOf(s_norm2, s_norm1)
    /\ ~s_similar

\* C12: for every name X and every leading article, in any letter case,
\* normalize(article + " " + X) = normalize(X).
C12_ArticlesRemoved ==
    Normalized /\ (\E article \in LeadingArticles : s_artist1 = article \o " " \o s_artist2)
        => s_norm1 = s_norm2

\* C13: normalize is idempotent: normalizing a normalized name returns it.
C13_Idempotent ==
    Normalized => /\ normalize_artist_name(s_norm1) = s_norm1
                  /\ normalize_artist_name(s_norm2) = s_norm2

----------------------------------------------------------------------------
(* Properties of the session handling, under SpecSession *)

\* C27: current_user is a user name only if verify_credentials has accepted
\* that user name, in this session or in an earlier one: no request makes the
\* application act as a user who never logged in with the right password.
C27_OnlyVerifiedUsers == current_user # None => current_user[1] \in verified

\* the token was made by save_session_to_storage, whenever and for whomever
WellFormedToken(token) ==
    /\ token # None
    /\ B64Decode(token) # None
    /\ JsonLoads(B64Decode(token)[1]) # None
    /\ DOMAIN JsonLoads(B64Decode(token)[1])[1] = {"username", "remember_me", "timestamp"}
    /\ FromIsoFormat(JsonLoads(B64Decode(token)[1])[1].timestamp) # None

\* the age of a well-formed token at a time, in half days
TokenAge(token, at) == at - FromIsoFormat(JsonLoads(B64Decode(token)[1])[1].timestamp)[1]

\* C28: load_session_from_storage restores the session of a well-formed token
\* whose age is at least 0 and below 7 days; for a token older than 7 days or
\* ahead of the clock, for no token and for a malformed one it returns False
\* and leaves current_user and remember_me as they were.
C28_RestoredOnlyInWindow ==
    last_load # None =>
        LET token == last_load.token
            fresh == /\ WellFormedToken(token)
                     /\ TokenAge(token, last_load.at) >= 0
                     /\ TokenAge(token, last_load.at) < SessionMaxDays * HalfDaysPerDay
            refused == \/ ~WellFormedToken(token)
                       \/ TokenAge(token, last_load.at) < 0
                       \/ TokenAge(token, last_load.at) > SessionMaxDays * HalfDaysPerDay
        IN  /\ fresh => /\ last_load.returned
                        /\ last_load.user_after = Some(JsonLoads(B64Decode(token)[1])[1].username)
            /\ refused => /\ ~last_load.returned
                          /\ last_load.user_after = last_load.user_before
                          /\ last_load.remember_after = last_load.remember_before

----------------------------------------------------------------------------
(* Properties of the wall, under SpecWall *)

\* the last like-button writes of two users added them to the likes of the
\* same album, in runs that had loaded the same likes list
LikedFromSameList(u, v) ==
    /\ last_like[u] # None
    /\ last_like[v] # None
    /\ last_like[u][1].added
    /\ last_like[v][1].added
    /\ last_like[u][1].album = last_like[v][1].album
    /\ last_like[u][1].loaded = last_like[v][1].loaded

\* C29: when two users have each liked the same album from page runs that
\* loaded the same stored likes list, and both lists have been written, both
\* users are in the album's stored likes list.
C29_NoLostLike ==
    \A u, v \in AppUsers :
        u # v /\ LikedFromSameList(u, v)
            => {u, v} \subseteq Likers(RowOf(wall, last_like[u][1].album).likes)

\* C30: no two albums on the wall have the same URL, whatever submissions
\* and edits were made, at once or one after the other.
C30_UniqueUrls ==
    \A i, j \in 1..Len(wall) : wall[i].url = wall[j].url => i = j

====
